---- MODULE Spec2Model ----
(***************************************************************************)
(* Front-end of the Anthropic usage dashboard (React components bound to   *)
(* a Shiny backend through named inputs and outputs).                      *)
(*                                                                         *)
(* The state is what the browser holds: the latest value received for each *)
(* backend output (useShinyOutput), the value last written to each backend *)
(* input (useShinyInput), the components' local React state (sort state,   *)
(* calendar pickers), the values cached by React.useMemo, and what each    *)
(* component has rendered.  Every action is one event handled by the page: *)
(* a backend push of one output, a UI control event, or an effect that     *)
(* React runs after mounting.  Each action ends with the render that       *)
(* React performs after the state change.                                  *)
(***************************************************************************)
EXTENDS Integers, Sequences, FiniteSets, TLC

(***************************************************************************)
(* JavaScript values.  A value is tagged with its type so that values of   *)
(* different types can sit in one array, as they do in a JSON payload.     *)
(***************************************************************************)
JSUndefined == [t |-> "undefined", v |-> 0]

JSNull == [t |-> "null", v |-> 0]

Num(n) == [t |-> "num", v |-> n]

Str(s) == [t |-> "str", v |-> s]

\* !x : undefined, null, 0 and "" are the falsy values that occur here.
Falsy(x) ==
    \/ x.t \in {"undefined", "null"}
    \/ (x.t = "num" /\ x.v = 0)
    \/ (x.t = "str" /\ x.v = "")

\* x || d
OrElse(x, d) == IF Falsy(x) THEN d ELSE x

(***************************************************************************)
(* Values of the chart and table outputs.  An object is the ordered list   *)
(* of its properties (Object.keys order); every property is a column, an   *)
(* array of cells.  The other kinds are what an output holds when nothing  *)
(* was received, or when something that is no object was.                  *)
(***************************************************************************)
RawUndefined == [kind |-> "undefined", cols |-> <<>>]

RawNull == [kind |-> "null", cols |-> <<>>]

\* The string "abc": no object, but it is truthy, Object.keys gives its
\* indices "0", "1", "2", and each index holds a string of one character.
RawString ==
    [kind |-> "string",
     cols |-> <<[name |-> "0", data |-> <<Str("a")>>],
                [name |-> "1", data |-> <<Str("b")>>],
                [name |-> "2", data |-> <<Str("c")>>]>>]

Obj(cols) == [kind |-> "object", cols |-> cols]

Col(name, data) == [name |-> name, data |-> data]

\* The default value {} that ChartsSection gives useShinyOutput.
EmptyObject == Obj(<<>>)

\* raw.c is not undefined
HasProp(raw, c) == \E k \in 1..Len(raw.cols) : raw.cols[k].name = c

\* raw.c, for a property the object has
Prop(raw, c) ==
    raw.cols[CHOOSE k \in 1..Len(raw.cols) : raw.cols[k].name = c].data

\* arr[i], i counted from 0: undefined beyond the end of the array
At(arr, i) == IF i < Len(arr) THEN arr[i + 1] ELSE JSUndefined

\* Object.keys(raw)
ObjectKeys(raw) == [k \in 1..Len(raw.cols) |-> raw.cols[k].name]

(***************************************************************************)
(* Model names.  replace("claude-", "") removes the first occurrence of    *)
(* the prefix; the names that occur are listed with their results.         *)
(***************************************************************************)
ReplaceClaude(s) ==
    CASE s = "claude-3-haiku" -> "3-haiku"
      [] s = "claude-3-opus" -> "3-opus"
      [] s = "claude-" -> ""
      [] OTHER -> s

(***************************************************************************)
(* Result of a reshaping callback: the rows it returns, or the fact that   *)
(* it raised a TypeError (indexing a column the object does not have).     *)
(***************************************************************************)
Returned(rows) == [threw |-> FALSE, rows |-> rows]

Threw == [threw |-> TRUE, rows |-> <<>>]

\* The guard that opens every useMemo callback of ChartsSection:
\* !raw || typeof raw !== "object" || !raw[key]
Malformed(raw, key) == raw.kind # "object" \/ ~HasProp(raw, key)

\* Array.from({length}, callback) calls back only when length > 0; the
\* callback indexes every column in `others`, which throws on a missing one.
IndexThrows(raw, key, others) ==
    /\ Len(Prop(raw, key)) > 0
    /\ \E c \in others : ~HasProp(raw, c)

(***************************************************************************)
(* ChartsSection: the seven useMemo callbacks that turn a column-major     *)
(* output into a list of rows.                                             *)
(***************************************************************************)
tokenUsageData(raw) ==
    IF Malformed(raw, "date") THEN Returned(<<>>)
    ELSE IF IndexThrows(raw, "date", {"input_tokens", "output_tokens"}) THEN Threw
    ELSE LET length == Len(Prop(raw, "date")) IN
         Returned([i \in 1..length |->
             [date |-> At(Prop(raw, "date"), i - 1),
              input_tokens |-> OrElse(At(Prop(raw, "input_tokens"), i - 1), Num(0)),
              output_tokens |-> OrElse(At(Prop(raw, "output_tokens"), i - 1), Num(0))]])

\* raw.model[i]?.replace("claude-", "") || "Unknown"
ModelLabel(cell) ==
    IF cell.t \in {"undefined", "null"} THEN Str("Unknown")
    ELSE OrElse(Str(ReplaceClaude(cell.v)), Str("Unknown"))

costByModelData(raw) ==
    IF Malformed(raw, "model") THEN Returned(<<>>)
    ELSE IF IndexThrows(raw, "model", {"cost"}) THEN Threw
    \* a cell that is neither a string nor null has no replace method
    ELSE IF \E k \in 1..Len(Prop(raw, "model")) : Prop(raw, "model")[k].t = "num" THEN Threw
    ELSE LET length == Len(Prop(raw, "model")) IN
         Returned([i \in 1..length |->
             [model |-> ModelLabel(At(Prop(raw, "model"), i - 1)),
              cost |-> OrElse(At(Prop(raw, "cost"), i - 1), Num(0))]])

serviceTierData(raw) ==
    IF Malformed(raw, "service_tier") THEN Returned(<<>>)
    ELSE IF IndexThrows(raw, "service_tier", {"tokens"}) THEN Threw
    ELSE LET length == Len(Prop(raw, "service_tier")) IN
         Returned([i \in 1..length |->
             [service_tier |-> OrElse(At(Prop(raw, "service_tier"), i - 1), Str("standard")),
              tokens |-> OrElse(At(Prop(raw, "tokens"), i - 1), Num(0))]])

workspaceCostData(raw) ==
    IF Malformed(raw, "workspace") THEN Returned(<<>>)
    ELSE IF IndexThrows(raw, "workspace", {"cost"}) THEN Threw
    ELSE LET length == Len(Prop(raw, "workspace")) IN
         Returned([i \in 1..length |->
             [workspace |-> OrElse(At(Prop(raw, "workspace"), i - 1), Str("Unknown")),
              cost |-> OrElse(At(Prop(raw, "cost"), i - 1), Num(0))]])

apiKeyUsageData(raw) ==
    IF Malformed(raw, "api_key") THEN Returned(<<>>)
    ELSE IF IndexThrows(raw, "api_key", {"tokens"}) THEN Threw
    ELSE LET length == Len(Prop(raw, "api_key")) IN
         Returned([i \in 1..length |->
             [api_key |-> OrElse(At(Prop(raw, "api_key"), i - 1), Str("Unknown")),
              tokens |-> OrElse(At(Prop(raw, "tokens"), i - 1), Num(0))]])

EpochString == "1970-01-01T00:00:00Z"

\* The rows of workspaceCostTableData; its `total` is passed through to the
\* footer untouched and is not part of the rows.
workspaceCostTableData(raw) ==
    IF Malformed(raw, "workspace") THEN Returned(<<>>)
    ELSE IF IndexThrows(raw, "workspace",
              {"cost", "input_tokens", "output_tokens", "total_tokens", "creation_time"})
         THEN Threw
    ELSE LET length == Len(Prop(raw, "workspace")) IN
         Returned([i \in 1..length |->
             [workspace |-> OrElse(At(Prop(raw, "workspace"), i - 1), Str("Unknown")),
              cost |-> OrElse(At(Prop(raw, "cost"), i - 1), Num(0)),
              input_tokens |-> OrElse(At(Prop(raw, "input_tokens"), i - 1), Num(0)),
              output_tokens |-> OrElse(At(Prop(raw, "output_tokens"), i - 1), Num(0)),
              total_tokens |-> OrElse(At(Prop(raw, "total_tokens"), i - 1), Num(0)),
              creation_time |->
                  OrElse(At(Prop(raw, "creation_time"), i - 1), Str(EpochString))]])

apiKeyUsageTableData(raw) ==
    IF Malformed(raw, "api_key") THEN Returned(<<>>)
    ELSE IF IndexThrows(raw, "api_key",
              {"workspace", "input_tokens", "output_tokens", "total_tokens", "creation_time"})
         THEN Threw
    ELSE LET length == Len(Prop(raw, "api_key")) IN
         Returned([i \in 1..length |->
             [api_key |-> OrElse(At(Prop(raw, "api_key"), i - 1), Str("Unknown")),
              workspace |-> OrElse(At(Prop(raw, "workspace"), i - 1), Str("Unknown")),
              input_tokens |-> OrElse(At(Prop(raw, "input_tokens"), i - 1), Num(0)),
              output_tokens |-> OrElse(At(Prop(raw, "output_tokens"), i - 1), Num(0)),
              total_tokens |-> OrElse(At(Prop(raw, "total_tokens"), i - 1), Num(0)),
              creation_time |->
                  OrElse(At(Prop(raw, "creation_time"), i - 1), Str(EpochString))]])

\* The outputs ChartsSection subscribes to, by their Shiny output ids.
ChartIds ==
    {"token_usage_chart_data", "cost_by_model_chart_data", "service_tier_chart_data",
     "workspace_cost_chart_data", "api_key_usage_chart_data",
     "workspace_cost_table_data", "api_key_usage_table_data"}

\* The five datasets the error-panel test of ChartsSection looks at.
ChartDataIds ==
    {"token_usage_chart_data", "cost_by_model_chart_data", "service_tier_chart_data",
     "workspace_cost_chart_data", "api_key_usage_chart_data"}

\* The useMemo callback that depends on output `id`.
Reshape(id, raw) ==
    CASE id = "token_usage_chart_data" -> tokenUsageData(raw)
      [] id = "cost_by_model_chart_data" -> costByModelData(raw)
      [] id = "service_tier_chart_data" -> serviceTierData(raw)
      [] id = "workspace_cost_chart_data" -> workspaceCostData(raw)
      [] id = "api_key_usage_chart_data" -> apiKeyUsageData(raw)
      [] id = "workspace_cost_table_data" -> workspaceCostTableData(raw)
      [] id = "api_key_usage_table_data" -> apiKeyUsageTableData(raw)

(***************************************************************************)
(* DataTableSection: column-major to row-major, called on every render.    *)
(* A row is the list of its (column name, cell) pairs in column order.     *)
(* raw[columnNames[0]].length rows are built; a column shorter than that   *)
(* yields undefined cells.                                                 *)
(***************************************************************************)
\* processUsageData as it would be with the row count taken from the number
\* of columns.
processUsageDataByColumnCount(usageTableDataRaw) ==
    IF usageTableDataRaw.kind \in {"undefined", "null"} THEN <<>>
    ELSE LET columnNames == ObjectKeys(usageTableDataRaw)
             numRows == Len(columnNames)
         IN  [rowIndex \in 1..numRows |->
                 [k \in 1..Len(columnNames) |->
                     [colName |-> columnNames[k],
                      cell |-> At(Prop(usageTableDataRaw, columnNames[k]), rowIndex - 1)]]]

processUsageData(usageTableDataRaw) ==
    IF usageTableDataRaw.kind \in {"undefined", "null"} THEN <<>>
    ELSE LET columnNames == ObjectKeys(usageTableDataRaw)
             numRows == IF Len(columnNames) > 0
                        THEN Len(Prop(usageTableDataRaw, columnNames[1])) ELSE 0
         IN  [rowIndex \in 1..numRows |->
                 [k \in 1..Len(columnNames) |->
                     [colName |-> columnNames[k],
                      cell |-> At(Prop(usageTableDataRaw, columnNames[k]), rowIndex - 1)]]]

processCostData(costTableDataRaw) ==
    IF costTableDataRaw.kind \in {"undefined", "null"} THEN <<>>
    ELSE LET columnNames == ObjectKeys(costTableDataRaw)
             numRows == IF Len(columnNames) > 0
                        THEN Len(Prop(costTableDataRaw, columnNames[1])) ELSE 0
         IN  [rowIndex \in 1..numRows |->
                 [k \in 1..Len(columnNames) |->
                     [colName |-> columnNames[k],
                      cell |-> At(Prop(costTableDataRaw, columnNames[k]), rowIndex - 1)]]]

\* row[c], for a row built above
Field(row, c) ==
    IF \E k \in 1..Len(row) : row[k].colName = c
    THEN row[CHOOSE k \in 1..Len(row) : row[k].colName = c].cell
    ELSE JSUndefined

(***************************************************************************)
(* The api_status output: undefined until the backend sends it, then an    *)
(* object whose `status` field decides what is displayed.  Its `message`   *)
(* and `last_update` are only echoed into the page.                        *)
(***************************************************************************)
StatusUndefined == [received |-> FALSE, status |-> ""]

Status(s) == [received |-> TRUE, status |-> s]

\* getBadgeVariant as it would be if the status were looked at before the
\* demo-mode input.
getBadgeVariantStatusFirst(demoMode, apiStatus) ==
    IF ~apiStatus.received THEN "secondary"
    ELSE CASE apiStatus.status = "connected" -> "default"
           [] apiStatus.status = "error" -> "destructive"
           [] OTHER -> "secondary"

\* DemoModeToggle.getBadgeVariant
getBadgeVariant(demoMode, apiStatus) ==
    IF demoMode THEN "secondary"
    ELSE IF ~apiStatus.received THEN "secondary"
    ELSE CASE apiStatus.status = "connected" -> "default"
           [] apiStatus.status = "partial" -> "secondary"
           [] apiStatus.status = "error" -> "destructive"
           [] apiStatus.status = "demo" -> "secondary"
           [] OTHER -> "secondary"

\* getStatusText as it would be with the three statuses only.
getStatusTextThreeStatuses(demoMode, apiStatus) ==
    IF demoMode THEN "Demo Data"
    ELSE IF ~apiStatus.received THEN "Loading..."
    ELSE CASE apiStatus.status = "connected" -> "Live Data"
           [] apiStatus.status = "error" -> "API Error"
           [] apiStatus.status = "demo" -> "Demo Data"
           [] OTHER -> apiStatus.status

\* DemoModeToggle.getStatusText
getStatusText(demoMode, apiStatus) ==
    IF demoMode THEN "Demo Data"
    ELSE IF ~apiStatus.received THEN "Loading..."
    ELSE CASE apiStatus.status = "connected" -> "Live Data"
           [] apiStatus.status = "partial" -> "Partial Data"
           [] apiStatus.status = "error" -> "API Error"
           [] apiStatus.status = "demo" -> "Demo Data"
           [] OTHER -> apiStatus.status

\* What DemoModeToggle renders: the switch position and the badge.
DemoModeToggle(demoMode, apiStatus) ==
    [checked |-> demoMode,
     variant |-> getBadgeVariant(demoMode, apiStatus),
     text |-> getStatusText(demoMode, apiStatus)]

\* ApiStatusCard: getStatusIcon, getStatusColor, getStatusText
ApiStatusCard(apiStatus) ==
    IF ~apiStatus.received
    THEN [icon |-> "pulse", color |-> "gray", text |-> "Checking..."]
    ELSE CASE apiStatus.status = "connected" ->
                [icon |-> "CheckCircle", color |-> "green", text |-> "Live Data"]
           [] apiStatus.status = "demo" ->
                [icon |-> "AlertTriangle", color |-> "yellow", text |-> "Demo Data"]
           [] apiStatus.status = "error" ->
                [icon |-> "XCircle", color |-> "red", text |-> "API Error"]
           [] OTHER ->
                [icon |-> "dot", color |-> "gray", text |-> "Unknown"]

\* The ApiStatus footer of the sidebar: the same three switches.
ApiStatus(apiStatus) ==
    IF ~apiStatus.received
    THEN [icon |-> "pulse", color |-> "gray", text |-> "Checking API..."]
    ELSE CASE apiStatus.status = "connected" ->
                [icon |-> "CheckCircle", color |-> "green", text |-> "Live Data"]
           [] apiStatus.status = "demo" ->
                [icon |-> "AlertTriangle", color |-> "yellow", text |-> "Demo Data"]
           [] apiStatus.status = "error" ->
                [icon |-> "XCircle", color |-> "red", text |-> "API Error"]
           [] OTHER ->
                [icon |-> "dot", color |-> "gray", text |-> "Unknown"]

\* The panel ErrorState renders with the props both callers pass.
ErrorPanel(title) ==
    [kind |-> "error_panel", title |-> title,
     showDemoModeButton |-> TRUE, showRetryButton |-> TRUE]

\* StatsCards as it would be if the status alone decided: the error panel
\* whenever the status is "error".
StatsCardsStatusOnly(apiStatus, totalTokens, totalCost, activeModels, apiCalls) ==
    IF apiStatus.received /\ apiStatus.status = "error"
    THEN ErrorPanel("Statistics Unavailable")
    ELSE [kind |-> "cards", title |-> "",
          showDemoModeButton |-> FALSE, showRetryButton |-> FALSE]

\* StatsCards: the error panel, or the four KPI cards.
StatsCards(apiStatus, totalTokens, totalCost, activeModels, apiCalls) ==
    IF /\ apiStatus.received
       /\ apiStatus.status = "error"
       /\ totalTokens = "0"
       /\ totalCost = "$0.00"
       /\ activeModels = "0"
       /\ apiCalls = "0"
    THEN ErrorPanel("Statistics Unavailable")
    ELSE [kind |-> "cards", title |-> "",
          showDemoModeButton |-> FALSE, showRetryButton |-> FALSE]

\* ChartsSection as it would be if the error panel depended on the data only.
ChartsSectionDataOnly(apiStatus, memo) ==
    IF \A id \in ChartDataIds : Len(memo[id].rows) = 0
    THEN ErrorPanel("Charts Unavailable")
    ELSE [kind |-> "charts", title |-> "",
          showDemoModeButton |-> FALSE, showRetryButton |-> FALSE]

\* ChartsSection, once its useMemo callbacks have returned: the error panel,
\* or the charts and tables.
ChartsSection(apiStatus, memo) ==
    IF /\ apiStatus.received
       /\ apiStatus.status = "error"
       /\ \A id \in ChartDataIds : Len(memo[id].rows) = 0
    THEN ErrorPanel("Charts Unavailable")
    ELSE [kind |-> "charts", title |-> "",
          showDemoModeButton |-> FALSE, showRetryButton |-> FALSE]

\* What is left of a component after a render of the tree has thrown:
\* without an error boundary React unmounts the whole tree.
Unmounted ==
    [kind |-> "unmounted", title |-> "",
     showDemoModeButton |-> FALSE, showRetryButton |-> FALSE]

(***************************************************************************)
(* Client-side sorting of the two tables of ChartsSection.                 *)
(*                                                                         *)
(* Strings and timestamps are compared by JavaScript as code-unit          *)
(* sequences and as instants; the names and timestamps that occur are      *)
(* listed with their lower-case form, their place in code-unit order and   *)
(* their instant (days since the epoch).                                   *)
(***************************************************************************)
ToLowerCase(s) ==
    CASE s = "Alpha" -> "alpha"
      [] s = "Beta" -> "beta"
      [] s = "Key-B" -> "key-b"
      [] s = "Unknown" -> "unknown"
      [] OTHER -> s

\* Place of a lower-case string in code-unit order.
CodeUnitOrder(s) ==
    CASE s = "alpha" -> 1
      [] s = "beta" -> 2
      [] s = "key-a" -> 3
      [] s = "key-b" -> 4
      [] s = "unknown" -> 5

\* new Date(s).valueOf(), in days
DateValue(s) ==
    CASE s = "1970-01-01T00:00:00Z" -> 0
      [] s = "2024-01-15T00:00:00Z" -> 19737
      [] s = "2024-03-01T00:00:00Z" -> 19783

\* The conversion the comparator applies to a cell before comparing:
\* Number(v) for the numeric columns, new Date(v) for creation_time,
\* String(v).toLowerCase() otherwise.
Comparable(numericColumns, column, cell) ==
    IF column \in numericColumns THEN cell.v
    ELSE IF column = "creation_time" THEN DateValue(cell.v)
    ELSE CodeUnitOrder(ToLowerCase(cell.v))

\* The comparator as it would be if it ignored the direction.
CompareRowsAscending(numericColumns, sort, a, b) ==
    LET aVal == Comparable(numericColumns, sort.column, a[sort.column])
        bVal == Comparable(numericColumns, sort.column, b[sort.column])
    IN  IF aVal > bVal THEN 1 ELSE -1

\* The comparator passed to sort: it answers 1 or -1, never 0.
CompareRows(numericColumns, sort, a, b) ==
    LET aVal == Comparable(numericColumns, sort.column, a[sort.column])
        bVal == Comparable(numericColumns, sort.column, b[sort.column])
    IN  IF sort.direction = "asc"
        THEN (IF aVal > bVal THEN 1 ELSE -1)
        ELSE (IF aVal < bVal THEN 1 ELSE -1)

(***************************************************************************)
(* Array.prototype.sort on an array shorter than 64 elements, as the       *)
(* engine runs it: the leading run is found (and reversed when it is       *)
(* descending), then every later element is placed by binary insertion.    *)
(* With a comparator that never answers 0 the order of equal keys is what  *)
(* this procedure makes it.                                                *)
(***************************************************************************)
Reverse(arr) == [i \in 1..Len(arr) |-> arr[Len(arr) + 1 - i]]

RECURSIVE RunLength(_, _, _, _, _)
\* Length of the run that starts at arr[1], having accepted arr[1..idx-1].
RunLength(numericColumns, sort, arr, idx, isDescending) ==
    IF idx > Len(arr) THEN Len(arr)
    ELSE LET order == CompareRows(numericColumns, sort, arr[idx], arr[idx - 1]) IN
         IF (isDescending /\ order >= 0) \/ (~isDescending /\ order < 0)
         THEN idx - 1
         ELSE RunLength(numericColumns, sort, arr, idx + 1, isDescending)

RECURSIVE InsertionPoint(_, _, _, _, _, _)
\* Binary search for pivot among arr[1..], between left and right (counted
\* from 0, right exclusive).
InsertionPoint(numericColumns, sort, arr, pivot, left, right) ==
    IF left >= right THEN left
    ELSE LET mid == left + ((right - left) \div 2)
             order == CompareRows(numericColumns, sort, pivot, arr[mid + 1])
         IN  IF order < 0
             THEN InsertionPoint(numericColumns, sort, arr, pivot, left, mid)
             ELSE InsertionPoint(numericColumns, sort, arr, pivot, mid + 1, right)

RECURSIVE BinaryInsertionSort(_, _, _, _)
\* arr[1..start] is sorted; place arr[start+1], arr[start+2], ...
BinaryInsertionSort(numericColumns, sort, arr, start) ==
    IF start >= Len(arr) THEN arr
    ELSE LET pivot == arr[start + 1]
             left == InsertionPoint(numericColumns, sort, arr, pivot, 0, start)
             placed == [p \in 1..Len(arr) |->
                          IF p <= left THEN arr[p]
                          ELSE IF p = left + 1 THEN pivot
                          ELSE IF p <= start + 1 THEN arr[p - 1]
                          ELSE arr[p]]
         IN  BinaryInsertionSort(numericColumns, sort, placed, start + 1)

ArraySort(numericColumns, sort, arr) ==
    IF Len(arr) < 2 THEN arr
    ELSE LET isDescending == CompareRows(numericColumns, sort, arr[2], arr[1]) < 0
             run == RunLength(numericColumns, sort, arr, 3, isDescending)
             made == IF isDescending
                     THEN Reverse(SubSeq(arr, 1, run)) \o SubSeq(arr, run + 1, Len(arr))
                     ELSE arr
         IN  BinaryInsertionSort(numericColumns, sort, made, run)

\* [...workspaceCostTableData.rows].sort(...)
sortedWorkspaceCostTableData(rows, workspaceTableSort) ==
    ArraySort({"cost", "input_tokens", "output_tokens", "total_tokens"},
              workspaceTableSort, rows)

\* [...apiKeyUsageTableData].sort(...)
sortedApiKeyUsageTableData(rows, apiKeyTableSort) ==
    ArraySort({"input_tokens", "output_tokens", "total_tokens"}, apiKeyTableSort, rows)

WorkspaceColumns ==
    {"workspace", "cost", "input_tokens", "output_tokens", "total_tokens", "creation_time"}

ApiKeyColumns ==
    {"api_key", "workspace", "input_tokens", "output_tokens", "total_tokens",
     "creation_time"}

\* The updater as it would be if it flipped the direction without looking at
\* the column.
SortChangeAnyColumn(prev, column) ==
    [column |-> column,
     direction |-> IF prev.direction = "asc" THEN "desc" ELSE "asc"]

\* setState updater of handleWorkspaceSortChange and handleApiKeySortChange
SortChange(prev, column) ==
    [column |-> column,
     direction |-> IF prev.column = column /\ prev.direction = "asc"
                   THEN "desc" ELSE "asc"]

(***************************************************************************)
(* Dates.  An instant is a whole number of hours since the epoch (UTC); a  *)
(* calendar day is a whole number of days since the epoch, which stands    *)
(* for its YYYY-MM-DD text.  A time zone is its standard offset and the    *)
(* interval of instants during which clocks are one hour ahead of it.      *)
(***************************************************************************)
UTC == [std |-> 0, dstFrom |-> 0, dstTo |-> 0]

\* Offset of local time from UTC at instant t.
Offset(zone, t) ==
    IF zone.dstFrom <= t /\ t < zone.dstTo THEN zone.std + 1 ELSE zone.std

\* The UTC instant of a local time.  A local time that occurs twice, or not
\* at all, is read with the offset in force before the transition.
ToUTC(zone, local) ==
    LET asStd == local - zone.std
        asDst == local - (zone.std + 1)
        stdOk == Offset(zone, asStd) = zone.std
        dstOk == Offset(zone, asDst) = zone.std + 1
    IN  IF stdOk /\ dstOk THEN asDst
        ELSE IF dstOk THEN asDst
        ELSE asStd

\* An undefined Date, and new Date() at instant t.
NoDate == [defined |-> FALSE, t |-> 0]

DateAt(t) == [defined |-> TRUE, t |-> t]

\* The first day of the month of a day, for the first months of 1970 (day 0
\* is 1970-01-01).
MonthStart(day) ==
    CHOOSE first \in {0, 31, 59, 90, 120, 151} :
        /\ first <= day
        /\ \A other \in {0, 31, 59, 90, 120, 151} : other <= day => other <= first

\* d.setDate(from.getDate() - days): the day of the month of d becomes the
\* day of the month of `from` less days, counted in the month of d (a count
\* below 1 runs into the months before); the local time of day stays.
SetDateBack(zone, d, from, days) ==
    LET local == d.t + Offset(zone, d.t)
        fromLocal == from.t + Offset(zone, from.t)
        \* from.getDate()
        getDate == (fromLocal \div 24) - MonthStart(fromLocal \div 24) + 1
        newDay == MonthStart(local \div 24) + (getDate - days) - 1
    IN  DateAt(ToUTC(zone, newDay * 24 + (local % 24)))

\* The text written to date_start and date_end: empty at first, then a
\* calendar day followed by a fixed time of day.
EmptyString == [empty |-> TRUE, day |-> 0, time |-> ""]

IsoText(day, time) == [empty |-> FALSE, day |-> day, time |-> time]

\* d.toISOString().split("T")[0] + time
IsoDay(d, time) == IsoText(d.t \div 24, time)

(***************************************************************************)
(* ToastSystem: the handler of the "warning" custom messages.              *)
(***************************************************************************)
\* The value of a field the message does not have.
Undefined == "<undefined>"

\* No action button on the toast.
NoAction == "<none>"

\* handleWarningMessage as it would be if the default case showed nothing for
\* a message without a type.
handleWarningMessageSkippingUntyped(msg) ==
    CASE msg.type = "warning" ->
           <<[kind |-> "warning", message |-> msg.message, duration |-> 8000,
              action |-> "Dismiss"]>>
      [] msg.type = "error" ->
           <<[kind |-> "error", message |-> msg.message, duration |-> 10000,
              action |-> "Dismiss"]>>
      [] msg.type = "info" ->
           <<[kind |-> "info", message |-> msg.message, duration |-> 5000,
              action |-> NoAction]>>
      [] msg.type = "success" ->
           <<[kind |-> "success", message |-> msg.message, duration |-> 4000,
              action |-> NoAction]>>
      [] msg.type = Undefined -> <<>>
      [] OTHER ->
           <<[kind |-> "plain", message |-> msg.message, duration |-> 5000,
              action |-> NoAction]>>

\* handleWarningMessage: the toasts one message makes sonner show, in the
\* order of the calls (the switch compares msg.type with ===).
handleWarningMessage(msg) ==
    CASE msg.type = "warning" ->
           <<[kind |-> "warning", message |-> msg.message, duration |-> 8000,
              action |-> "Dismiss"]>>
      [] msg.type = "error" ->
           <<[kind |-> "error", message |-> msg.message, duration |-> 10000,
              action |-> "Dismiss"]>>
      [] msg.type = "info" ->
           <<[kind |-> "info", message |-> msg.message, duration |-> 5000,
              action |-> NoAction]>>
      [] msg.type = "success" ->
           <<[kind |-> "success", message |-> msg.message, duration |-> 4000,
              action |-> NoAction]>>
      [] OTHER ->
           <<[kind |-> "plain", message |-> msg.message, duration |-> 5000,
              action |-> NoAction]>>

(***************************************************************************)
(* The R backend (app.R): its data frames and its render functions.        *)
(* Numbers with one decimal are kept in tenths.                            *)
(***************************************************************************)
RECURSIVE sum(_)
\* sum(x)
sum(x) == IF x = <<>> THEN 0 ELSE Head(x) + sum(Tail(x))

\* cumsum(x)
cumsum(x) == [i \in 1..Len(x) |-> sum(SubSeq(x, 1, i))]

\* sample_data; score in tenths.
sample_data ==
    [id |-> <<1, 2, 3, 4, 5, 6, 7, 8>>,
     age |-> <<25, 30, 35, 28, 32, 27, 29, 33>>,
     score |-> <<855, 921, 883, 887, 952, 819, 874, 906>>,
     category |-> <<"A", "B", "A", "C", "B", "A", "C", "B">>]

\* monthly_data; month is month.abb[1:12].
monthly_data ==
    [month |-> <<"Jan", "Feb", "Mar", "Apr", "May", "Jun",
                 "Jul", "Aug", "Sep", "Oct", "Nov", "Dec">>,
     desktop |-> <<186, 305, 237, 173, 209, 214, 186, 305, 237, 173, 209, 214>>,
     mobile |-> <<80, 200, 120, 190, 130, 140, 80, 200, 120, 190, 130, 140>>,
     revenue |-> <<4500, 7200, 5800, 6100, 5400, 6800, 4900, 7500, 6200, 5700, 6300, 7100>>]

\* trend_data; date is seq(as.Date("2024-01-01"), by = "month",
\* length.out = 12): Date values, here the year, month and day of each.
trend_data ==
    [date |-> [i \in 1..12 |-> [year |-> 2024, month |-> i, day |-> 1]],
     users |-> cumsum(<<1200, 150, 200, 180, 220, 190, 210, 240, 180, 200, 190, 220>>),
     revenue |-> cumsum(<<45000, 5200, 6800, 5400, 7200, 6100, 6900, 8100, 5800, 6700,
                          6400, 7800>>)]

\* as.character of a Date: "%Y-%m-%d", month and day in two digits.
as_character(d) ==
    LET TwoDigits(n) == IF n < 10 THEN "0" \o ToString(n) ELSE ToString(n)
    IN ToString(d.year) \o "-" \o TwoDigits(d.month) \o "-" \o TwoDigits(d.day)

\* aggregate(score ~ category, data = sample_data, FUN = mean) with the count
\* column added: one row per category in sorted order; the mean is the exact
\* quotient sum / n of the scores in tenths.
category_summary ==
    LET levels == <<"A", "B", "C">>
        rows == 1..Len(sample_data.category)
        Members(c) == {i \in rows : sample_data.category[i] = c}
        ScoresOf(c) ==
            [i \in rows |-> IF i \in Members(c) THEN sample_data.score[i] ELSE 0]
    IN [category |-> levels,
        score |-> [k \in 1..3 |->
                     [sum |-> sum(ScoresOf(levels[k])),
                      n |-> Cardinality(Members(levels[k]))]],
        count |-> [k \in 1..3 |-> Cardinality(Members(levels[k]))]]

\* input$user_text %||% "": NULL becomes the empty text.  A text is the
\* sequence of its characters.
NULL == [null |-> TRUE]

\* An input value that is not NULL: a text or a count.
Value(v) == [null |-> FALSE, v |-> v]

OrEmpty(text) == IF text.null THEN <<>> ELSE text.v

\* toupper on the characters of the sample texts.
toupper(ch) == CASE ch = "a" -> "A" [] ch = "b" -> "B" [] OTHER -> ch

\* The outputs of the server function that the model evaluates.
OutputIds ==
    {"processed_text", "text_length", "button_response", "table_data", "total_users",
     "total_revenue",
     "active_sessions", "conversion_rate", "monthly_chart_data", "trend_chart_data",
     "category_chart_data"}

\* Evaluate as it would be if total_users counted the characters typed.
EvaluateReadingInput(id, in, draw) ==
    CASE id = "processed_text" ->
           LET text == OrEmpty(in.user_text)
           IN [i \in 1..Len(text) |-> toupper(text[Len(text) + 1 - i])]
      [] id = "text_length" -> ToString(Len(OrEmpty(in.user_text)))
      [] id = "button_response" -> [text |-> "Event received at:", time |-> draw.time]
      [] id = "table_data" -> sample_data
      [] id = "total_users" -> ToString(sum(trend_data.users) + Len(OrEmpty(in.user_text)))
      [] id = "total_revenue" -> ToString(sum(monthly_data.revenue))
      [] id = "active_sessions" -> ToString(draw.sessions)
      [] id = "conversion_rate" -> draw.rate
      [] id = "monthly_chart_data" -> monthly_data
      [] id = "trend_chart_data" ->
           [trend_data EXCEPT !.date = [i \in 1..12 |-> as_character(trend_data.date[i])]]
      [] id = "category_chart_data" -> category_summary

\* The render function of output id, run with the session's input values
\* and with what sample() and runif() draw.  renderText writes a whole
\* number in decimal; conversion_rate is in tenths.
Evaluate(id, in, draw) ==
    CASE id = "processed_text" ->
           LET text == OrEmpty(in.user_text)
           IN [i \in 1..Len(text) |-> toupper(text[Len(text) + 1 - i])]
      [] id = "text_length" -> ToString(Len(OrEmpty(in.user_text)))
      [] id = "button_response" -> [text |-> "Event received at:", time |-> draw.time]
      [] id = "table_data" -> sample_data
      [] id = "total_users" -> ToString(sum(trend_data.users))
      [] id = "total_revenue" -> ToString(sum(monthly_data.revenue))
      [] id = "active_sessions" -> ToString(draw.sessions)
      [] id = "conversion_rate" -> draw.rate
      [] id = "monthly_chart_data" -> monthly_data
      [] id = "trend_chart_data" ->
           [trend_data EXCEPT !.date = [i \in 1..12 |-> as_character(trend_data.date[i])]]
      [] id = "category_chart_data" -> category_summary

(***************************************************************************)
(* State.                                                                  *)
(***************************************************************************)
VARIABLES
    \* outputs, as last received (useShinyOutput)
    apiStatus, totalTokens, totalCost, activeModels, apiCalls,
    chartsRaw, usageTableDataRaw, costTableDataRaw,
    availableWorkspaces, availableApiKeys, availableModels,
    \* values cached by React.useMemo in ChartsSection
    memo, sorted,
    \* local React state
    workspaceTableSort, apiKeyTableSort, startDateObj, endDateObj,
    \* inputs, as last written (useShinyInput)
    selectedWorkspace, selectedApiKey, selectedModel, selectedGranularity,
    startDate, endDate, useDemoMode,
    \* the value of DemoModeToggle's own useShinyInput("use_demo_mode") hook:
    \* every call of the hook keeps a value of its own, and a setter sets
    \* that value and sends it as the input
    demoMode,
    \* what the components have rendered
    usageRows, costRows, rendered,
    \* the page: which draft of the filter component is mounted, whether its
    \* mount effect has run, whether a render has thrown
    component, effectsRan, crashed,
    \* the browser's clock and time zone
    now, zone,
    \* number of backend pushes so far
    pushes,
    \* ToastSystem: whether window.Shiny.addCustomMessageHandler exists,
    \* whether the mount effect has run, the delays of the pending
    \* setTimeout calls, the calls of addCustomMessageHandler("warning", ...)
    \* so far, the setTimeout calls so far, the messages handed to the
    \* handler and the toasts shown
    shinyAvailable, toastMounted, timers, registrations, polls, delivered, toasts,
    \* the R backend: each session's input values and output values
    input, output

outputVars ==
    <<apiStatus, totalTokens, totalCost, activeModels, apiCalls,
      chartsRaw, usageTableDataRaw, costTableDataRaw,
      availableWorkspaces, availableApiKeys, availableModels>>

kpiVars == <<totalTokens, totalCost, activeModels, apiCalls>>

availableVars == <<availableWorkspaces, availableApiKeys, availableModels>>

chartVars == <<chartsRaw, memo, sorted>>

tableVars == <<usageTableDataRaw, costTableDataRaw, usageRows, costRows>>

sortVars == <<workspaceTableSort, apiKeyTableSort>>

filterVars == <<selectedWorkspace, selectedApiKey, selectedModel, selectedGranularity>>

dateVars == <<startDate, endDate, startDateObj, endDateObj>>

\* The seven named inputs.
inputVars ==
    <<selectedWorkspace, selectedApiKey, selectedModel, selectedGranularity,
      startDate, endDate, useDemoMode>>

envVars == <<component, now, zone>>

toastVars == <<shinyAvailable, toastMounted, timers, registrations, polls, delivered, toasts>>

serverVars == <<input, output>>

\* The state of the dashboard page without the ToastSystem.
pageVars ==
    <<outputVars, memo, sorted, sortVars, dateVars, filterVars, useDemoMode, demoMode,
      usageRows, costRows,
      rendered, envVars, effectsRan, crashed, pushes>>

vars ==
    <<apiStatus, totalTokens, totalCost, activeModels, apiCalls,
      chartsRaw, usageTableDataRaw, costTableDataRaw,
      availableWorkspaces, availableApiKeys, availableModels,
      memo, sorted, workspaceTableSort, apiKeyTableSort, startDateObj, endDateObj,
      selectedWorkspace, selectedApiKey, selectedModel, selectedGranularity,
      startDate, endDate, useDemoMode, demoMode, usageRows, costRows, rendered,
      component, effectsRan, crashed, now, zone, pushes, toastVars, serverVars>>

(***************************************************************************)
(* Bounds of the model.                                                    *)
(***************************************************************************)
\* Backend pushes in one behaviour.
MaxPushes == 3

\* Rows of a table whose sorting is examined.
MaxRows == 3

\* Cells of a column whose reshaping is examined.
MaxLen == 2

(***************************************************************************)
(* The drafts of the filter component, one of which is mounted.            *)
(***************************************************************************)
Components == {"FilterControls", "FilterControlsNoDates", "FiltersSidebar", "DateRangeSelector"}

\* Drafts that own the filter selects.
HasFilters(c) == c \in {"FilterControls", "FilterControlsNoDates", "FiltersSidebar"}

\* Drafts that own the date range (pickers, presets and the mount effect).
HasDates(c) == c \in {"FilterControls", "FiltersSidebar", "DateRangeSelector"}

\* granularityOptions
granularityOptions(c) ==
    IF c = "FiltersSidebar" THEN {"1m", "1h", "1d"} ELSE {"1h", "1d", "7d", "30d"}

\* The preset buttons: the argument each passes to setPresetRange.
PresetDays(c) == IF c = "DateRangeSelector" THEN {1, 7, 30, 90} ELSE {7, 30, 90}

\* Items of a select: "all" and the ids the backend listed.
SelectItems(available) == {"all"} \cup {available[k] : k \in 1..Len(available)}

(***************************************************************************)
(* Rendering.  React renders after every state change; a throw in any      *)
(* component unmounts the tree.                                            *)
(***************************************************************************)
Render(status, tokens, cost, models, calls, m, demo, isCrashed) ==
    IF isCrashed
    THEN [stats |-> Unmounted, charts |-> Unmounted,
          toggle |-> [checked |-> FALSE, variant |-> "", text |-> ""],
          statusCard |-> [icon |-> "", color |-> "", text |-> ""],
          sidebar |-> [icon |-> "", color |-> "", text |-> ""]]
    ELSE [stats |-> StatsCards(status, tokens, cost, models, calls),
          charts |-> ChartsSection(status, m),
          toggle |-> DemoModeToggle(demo, status),
          statusCard |-> ApiStatusCard(status),
          sidebar |-> ApiStatus(status)]

\* The render that closes an action, over the state the action leaves.
Rerender ==
    rendered' = Render(apiStatus', totalTokens', totalCost', activeModels', apiCalls',
                       memo', demoMode', crashed')

InitialSort == [workspace |-> [column |-> "cost", direction |-> "desc"],
                apiKey |-> [column |-> "total_tokens", direction |-> "desc"]]

\* The page after its first render, before any effect has run or any
\* output has arrived: every hook holds its default.
\* The sessions of the backend that the model follows.
Sessions == {"s1", "s2"}

\* The outputs of a session that has not started.
NoSession == [started |-> FALSE]

\* The ToastSystem of a document that has just been loaded: shiny.js has
\* not run yet and no effect has run.
InitToasts ==
    /\ shinyAvailable = FALSE
    /\ toastMounted = FALSE
    /\ timers = <<>>
    /\ registrations = 0
    /\ polls = 0
    /\ delivered = <<>>
    /\ toasts = <<>>

\* The backend before any session has started.
InitServer ==
    /\ input = [s \in Sessions |-> [user_text |-> NULL, button_trigger |-> NULL]]
    /\ output = [s \in Sessions |-> NoSession]

InitPage ==
    /\ InitToasts
    /\ InitServer
    /\ apiStatus = StatusUndefined
    /\ totalTokens = "0"
    /\ totalCost = "$0.00"
    /\ activeModels = "0"
    /\ apiCalls = "0"
    /\ chartsRaw = [id \in ChartIds |-> EmptyObject]
    /\ usageTableDataRaw = RawUndefined
    /\ costTableDataRaw = RawUndefined
    /\ availableWorkspaces = <<>>
    /\ availableApiKeys = <<>>
    /\ availableModels = <<>>
    /\ memo = [id \in ChartIds |-> Reshape(id, EmptyObject)]
    /\ sorted = [workspace |-> <<>>, apiKey |-> <<>>]
    /\ workspaceTableSort = InitialSort.workspace
    /\ apiKeyTableSort = InitialSort.apiKey
    /\ startDateObj = NoDate
    /\ endDateObj = NoDate
    /\ selectedWorkspace = "all"
    /\ selectedApiKey = "all"
    /\ selectedModel = "all"
    /\ selectedGranularity = "1d"
    /\ startDate = EmptyString
    /\ endDate = EmptyString
    /\ useDemoMode = FALSE
    /\ demoMode = FALSE
    /\ usageRows = <<>>
    /\ costRows = <<>>
    /\ rendered = Render(StatusUndefined, "0", "$0.00", "0", "0",
                         [id \in ChartIds |-> Reshape(id, EmptyObject)], FALSE, FALSE)
    /\ effectsRan = FALSE
    /\ crashed = FALSE
    /\ pushes = 0

(***************************************************************************)
(* Backend pushes.  Each replaces the value of one output and re-renders   *)
(* the components subscribed to it.                                        *)
(***************************************************************************)
\* ChartsSection's JSX, reached when the error panel is not returned, reads
\* row.cost.toFixed for every row of the workspace table and, under more
\* than one row, sortedWorkspaceCostTableData.total.toFixed: a cost that is
\* no number, or a total that is the array the object carries, makes the
\* render throw.  toLocaleString exists on numbers and strings alike and
\* formatDate catches what it throws.
ChartsSectionRenderThrows(status, m, raws) ==
    /\ ChartsSection(status, m).kind = "charts"
    /\ LET rows == m["workspace_cost_table_data"].rows
       IN \/ \E i \in 1..Len(rows) : rows[i].cost.t # "num"
          \/ Len(rows) > 1 /\ HasProp(raws["workspace_cost_table_data"], "total")

\* api_status as it would be received if the front-end switched to demo data
\* by itself on an error.
ReceiveApiStatusFallingBack(s) ==
    /\ ~crashed
    /\ pushes < MaxPushes
    /\ apiStatus' = s
    /\ useDemoMode' = IF s.status = "error" THEN TRUE ELSE useDemoMode
    /\ crashed' = ChartsSectionRenderThrows(s, memo, chartsRaw)
    /\ pushes' = pushes + 1
    /\ UNCHANGED <<kpiVars, availableVars, chartVars, tableVars, sortVars, filterVars,
                   dateVars, demoMode, envVars, effectsRan>>
    /\ UNCHANGED <<toastVars, serverVars>>
    /\ Rerender

\* api_status
ReceiveApiStatus(s) ==
    /\ ~crashed
    /\ pushes < MaxPushes
    /\ apiStatus' = s
    /\ crashed' = ChartsSectionRenderThrows(s, memo, chartsRaw)
    /\ pushes' = pushes + 1
    /\ UNCHANGED <<kpiVars, availableVars, chartVars, tableVars, sortVars, filterVars,
                   dateVars, demoMode, envVars, effectsRan>>
    /\ UNCHANGED <<useDemoMode, toastVars, serverVars>>
    /\ Rerender

\* total_tokens, total_cost, active_models, api_calls
ReceiveKpi(id, value) ==
    /\ ~crashed
    /\ pushes < MaxPushes
    /\ totalTokens' = IF id = "total_tokens" THEN value ELSE totalTokens
    /\ totalCost' = IF id = "total_cost" THEN value ELSE totalCost
    /\ activeModels' = IF id = "active_models" THEN value ELSE activeModels
    /\ apiCalls' = IF id = "api_calls" THEN value ELSE apiCalls
    /\ pushes' = pushes + 1
    /\ UNCHANGED <<apiStatus, availableVars, chartVars, tableVars, sortVars, filterVars,
                   dateVars, demoMode, envVars, effectsRan, crashed>>
    /\ UNCHANGED <<useDemoMode, toastVars, serverVars>>
    /\ Rerender

\* The cache as it would be if a callback added the new rows to the rows it
\* had returned before.
MemoAfterAccumulating(id, raw) ==
    [memo EXCEPT ![id] =
        IF Reshape(id, raw).threw THEN Threw
        ELSE Returned(memo[id].rows \o Reshape(id, raw).rows)]

\* The useMemo cache of ChartsSection after output `id` became `raw`: only
\* the callback that depends on `id` runs again.
MemoAfter(id, raw) == [memo EXCEPT ![id] = Reshape(id, raw)]

\* The two sorted lists afterwards: each is recomputed when the rows it
\* depends on were recomputed, and kept otherwise.
SortedAfter(id, rows) ==
    [workspace |-> IF id = "workspace_cost_table_data"
                   THEN sortedWorkspaceCostTableData(rows, workspaceTableSort)
                   ELSE sorted.workspace,
     apiKey |-> IF id = "api_key_usage_table_data"
                THEN sortedApiKeyUsageTableData(rows, apiKeyTableSort)
                ELSE sorted.apiKey]

\* One of the seven chart and table outputs of ChartsSection.
ReceiveChartOutput(id, raw) ==
    /\ ~crashed
    /\ pushes < MaxPushes
    /\ chartsRaw' = [chartsRaw EXCEPT ![id] = raw]
    /\ memo' = MemoAfter(id, raw)
    /\ crashed' = (memo'[id].threw \/ ChartsSectionRenderThrows(apiStatus, memo', chartsRaw'))
    /\ sorted' = IF crashed' THEN sorted ELSE SortedAfter(id, memo'[id].rows)
    /\ pushes' = pushes + 1
    /\ UNCHANGED <<apiStatus, kpiVars, availableVars, tableVars, sortVars, filterVars,
                   dateVars, demoMode, envVars, effectsRan>>
    /\ UNCHANGED <<useDemoMode, toastVars, serverVars>>
    /\ Rerender

\* DataTableSection's JSX reads row.model.replace, row.input_tokens
\* .toLocaleString, row.output_tokens.toLocaleString and row.amount.toFixed:
\* a cell without that method makes the render throw.
DataTableRenderThrows(uRows, cRows) ==
    \/ \E i \in 1..Len(uRows) :
          \/ Field(uRows[i], "model").t # "str"
          \/ Field(uRows[i], "input_tokens").t \in {"undefined", "null"}
          \/ Field(uRows[i], "output_tokens").t \in {"undefined", "null"}
    \/ \E i \in 1..Len(cRows) :
          \/ Field(cRows[i], "model").t # "str"
          \/ Field(cRows[i], "amount").t # "num"

\* usage_table_data
ReceiveUsageTable(raw) ==
    /\ ~crashed
    /\ pushes < MaxPushes
    /\ usageTableDataRaw' = raw
    /\ usageRows' = processUsageData(raw)
    /\ costRows' = processCostData(costTableDataRaw)
    /\ crashed' = DataTableRenderThrows(usageRows', costRows')
    /\ pushes' = pushes + 1
    /\ UNCHANGED <<apiStatus, kpiVars, availableVars, chartVars, costTableDataRaw,
                   sortVars, filterVars, dateVars, demoMode, envVars, effectsRan>>
    /\ UNCHANGED <<useDemoMode, toastVars, serverVars>>
    /\ Rerender

\* cost_table_data
ReceiveCostTable(raw) ==
    /\ ~crashed
    /\ pushes < MaxPushes
    /\ costTableDataRaw' = raw
    /\ usageRows' = processUsageData(usageTableDataRaw)
    /\ costRows' = processCostData(raw)
    /\ crashed' = DataTableRenderThrows(usageRows', costRows')
    /\ pushes' = pushes + 1
    /\ UNCHANGED <<apiStatus, kpiVars, availableVars, chartVars, usageTableDataRaw,
                   sortVars, filterVars, dateVars, demoMode, envVars, effectsRan>>
    /\ UNCHANGED <<useDemoMode, toastVars, serverVars>>
    /\ Rerender

\* available_workspaces, available_api_keys, available_models
ReceiveAvailable(id, list) ==
    /\ ~crashed
    /\ pushes < MaxPushes
    /\ availableWorkspaces' = IF id = "available_workspaces" THEN list ELSE availableWorkspaces
    /\ availableApiKeys' = IF id = "available_api_keys" THEN list ELSE availableApiKeys
    /\ availableModels' = IF id = "available_models" THEN list ELSE availableModels
    /\ pushes' = pushes + 1
    /\ UNCHANGED <<apiStatus, kpiVars, chartVars, tableVars, sortVars, filterVars,
                   dateVars, demoMode, envVars, effectsRan, crashed>>
    /\ UNCHANGED <<useDemoMode, toastVars, serverVars>>
    /\ Rerender

(***************************************************************************)
(* UI control events.                                                      *)
(***************************************************************************)
\* DemoModeToggle.handleToggle, from the switch
handleToggle(checked) ==
    /\ ~crashed
    /\ demoMode' = checked
    /\ useDemoMode' = checked
    /\ UNCHANGED <<outputVars, memo, sorted, tableVars, sortVars, filterVars, dateVars,
                   envVars, effectsRan, crashed, pushes>>
    /\ UNCHANGED <<toastVars, serverVars>>
    /\ Rerender

\* An error panel with its two buttons is on the page.
ErrorPanelShown ==
    rendered.stats.kind = "error_panel" \/ rendered.charts.kind = "error_panel"

\* ErrorState.handleEnableDemoMode, from the View Demo Data button: the
\* setter of ErrorState's own hook sends use_demo_mode = true; the value of
\* DemoModeToggle's hook, and with it the switch and the badge, stays.
handleEnableDemoMode ==
    /\ ~crashed
    /\ ErrorPanelShown
    /\ useDemoMode' = TRUE
    /\ UNCHANGED <<outputVars, memo, sorted, tableVars, sortVars, filterVars, dateVars,
                   demoMode, envVars, effectsRan, crashed, pushes>>
    /\ UNCHANGED <<toastVars, serverVars>>
    /\ Rerender

\* handleWorkspaceSortChange, from a header of the workspace table
handleWorkspaceSortChange(column) ==
    /\ ~crashed
    /\ rendered.charts.kind = "charts"
    /\ workspaceTableSort' = SortChange(workspaceTableSort, column)
    /\ sorted' = [sorted EXCEPT !.workspace =
                     sortedWorkspaceCostTableData(memo["workspace_cost_table_data"].rows,
                                                  workspaceTableSort')]
    /\ UNCHANGED <<outputVars, memo, tableVars, apiKeyTableSort, filterVars, dateVars,
                   demoMode, envVars, effectsRan, crashed, pushes>>
    /\ UNCHANGED <<useDemoMode, toastVars, serverVars>>
    /\ Rerender

\* handleApiKeySortChange, from a header of the API-key table
handleApiKeySortChange(column) ==
    /\ ~crashed
    /\ rendered.charts.kind = "charts"
    /\ apiKeyTableSort' = SortChange(apiKeyTableSort, column)
    /\ sorted' = [sorted EXCEPT !.apiKey =
                     sortedApiKeyUsageTableData(memo["api_key_usage_table_data"].rows,
                                                apiKeyTableSort')]
    /\ UNCHANGED <<outputVars, memo, tableVars, workspaceTableSort, filterVars, dateVars,
                   demoMode, envVars, effectsRan, crashed, pushes>>
    /\ UNCHANGED <<useDemoMode, toastVars, serverVars>>
    /\ Rerender

\* handleWorkspaceChange as it would be without the reset of the API key.
handleWorkspaceChangeKeepingKey(value) ==
    /\ ~crashed
    /\ HasFilters(component)
    /\ selectedWorkspace' = value
    /\ UNCHANGED <<outputVars, memo, sorted, tableVars, sortVars, selectedApiKey,
                   selectedModel, selectedGranularity, dateVars, demoMode, envVars,
                   effectsRan, crashed, pushes>>
    /\ UNCHANGED <<useDemoMode, toastVars, serverVars>>
    /\ Rerender

\* handleWorkspaceChange, from the workspace select
handleWorkspaceChange(value) ==
    /\ ~crashed
    /\ HasFilters(component)
    /\ selectedWorkspace' = value
    \* Reset API key selection when workspace changes
    /\ selectedApiKey' = "all"
    /\ UNCHANGED <<outputVars, memo, sorted, tableVars, sortVars, selectedModel,
                   selectedGranularity, dateVars, demoMode, envVars, effectsRan,
                   crashed, pushes>>
    /\ UNCHANGED <<useDemoMode, toastVars, serverVars>>
    /\ Rerender

\* setSelectedApiKey, from the API-key select
setSelectedApiKey(value) ==
    /\ ~crashed
    /\ HasFilters(component)
    /\ selectedApiKey' = value
    /\ UNCHANGED <<outputVars, memo, sorted, tableVars, sortVars, selectedWorkspace,
                   selectedModel, selectedGranularity, dateVars, demoMode, envVars,
                   effectsRan, crashed, pushes>>
    /\ UNCHANGED <<useDemoMode, toastVars, serverVars>>
    /\ Rerender

\* setSelectedModel, from the model select
setSelectedModel(value) ==
    /\ ~crashed
    /\ HasFilters(component)
    /\ selectedModel' = value
    /\ UNCHANGED <<outputVars, memo, sorted, tableVars, sortVars, selectedWorkspace,
                   selectedApiKey, selectedGranularity, dateVars, demoMode, envVars,
                   effectsRan, crashed, pushes>>
    /\ UNCHANGED <<useDemoMode, toastVars, serverVars>>
    /\ Rerender

\* setSelectedGranularity, from the granularity select
setSelectedGranularity(value) ==
    /\ ~crashed
    /\ HasFilters(component)
    /\ selectedGranularity' = value
    /\ UNCHANGED <<outputVars, memo, sorted, tableVars, sortVars, selectedWorkspace,
                   selectedApiKey, selectedModel, dateVars, demoMode, envVars,
                   effectsRan, crashed, pushes>>
    /\ UNCHANGED <<useDemoMode, toastVars, serverVars>>
    /\ Rerender

\* What the calendar passes to onSelect for a picked day: local midnight.
CalendarDay(day) == DateAt(ToUTC(zone, day * 24))

\* handleStartDateSelect, from the start calendar (NoDate: the selected day
\* was clicked again, which clears the selection)
handleStartDateSelect(date) ==
    /\ ~crashed
    /\ HasDates(component)
    /\ startDateObj' = date
    /\ startDate' = IF date.defined THEN IsoDay(date, "T00:00:00Z") ELSE startDate
    /\ UNCHANGED <<outputVars, memo, sorted, tableVars, sortVars, filterVars, endDate,
                   endDateObj, demoMode, envVars, effectsRan, crashed, pushes>>
    /\ UNCHANGED <<useDemoMode, toastVars, serverVars>>
    /\ Rerender

\* handleEndDateSelect as it would be with the suffix of the start date.
handleEndDateSelectMidnight(date) ==
    /\ ~crashed
    /\ HasDates(component)
    /\ endDateObj' = date
    /\ endDate' = IF date.defined THEN IsoDay(date, "T00:00:00Z") ELSE endDate
    /\ UNCHANGED <<outputVars, memo, sorted, tableVars, sortVars, filterVars, startDate,
                   startDateObj, demoMode, envVars, effectsRan, crashed, pushes>>
    /\ UNCHANGED <<useDemoMode, toastVars, serverVars>>
    /\ Rerender

\* handleEndDateSelect, from the end calendar
handleEndDateSelect(date) ==
    /\ ~crashed
    /\ HasDates(component)
    /\ endDateObj' = date
    /\ endDate' = IF date.defined THEN IsoDay(date, "T23:59:59Z") ELSE endDate
    /\ UNCHANGED <<outputVars, memo, sorted, tableVars, sortVars, filterVars, startDate,
                   startDateObj, demoMode, envVars, effectsRan, crashed, pushes>>
    /\ UNCHANGED <<useDemoMode, toastVars, serverVars>>
    /\ Rerender

\* The assignments shared by setPresetRange and the mount effect.
\* Instants at which the clock is read (hours since 1970-01-01T00:00Z):
\* around two midnights of April 1970, and around the end of that month.
Instants == {2519, 2520, 2529, 2543, 2544, 2879, 2880}

\* What a second new Date() may read right after a first one read `now`:
\* the same instant or the next.
SecondReadings == {t \in Instants : now <= t /\ t <= now + 1}

\* The body of setPresetRange and of the mount effect: today = new Date()
\* reads the clock, pastDate = new Date() reads it again.
PresetAssignments(days, later) ==
    LET today == DateAt(now)
        pastDate == SetDateBack(zone, DateAt(later), today, days)
    IN  /\ now' = later
        /\ startDateObj' = pastDate
        /\ endDateObj' = today
        /\ startDate' = IsoDay(pastDate, "T00:00:00Z")
        /\ endDate' = IsoDay(today, "T23:59:59Z")

\* setPresetRange, from a preset button
setPresetRange(days) ==
    /\ ~crashed
    /\ HasDates(component)
    /\ \E later \in SecondReadings : PresetAssignments(days, later)
    /\ UNCHANGED <<outputVars, memo, sorted, tableVars, sortVars, filterVars, demoMode,
                   component, zone, effectsRan, crashed, pushes>>
    /\ UNCHANGED <<useDemoMode, toastVars, serverVars>>
    /\ Rerender

(***************************************************************************)
(* Steps the page takes by itself.                                         *)
(***************************************************************************)
\* React.useEffect(..., [setStartDate, setEndDate]): runs once after the
\* component has mounted and initialises the range to the last 7 days.
MountEffect ==
    /\ ~crashed
    /\ HasDates(component)
    /\ ~effectsRan
    /\ \E later \in SecondReadings : PresetAssignments(7, later)
    /\ effectsRan' = TRUE
    /\ UNCHANGED <<outputVars, memo, sorted, tableVars, sortVars, filterVars, demoMode,
                   component, zone, crashed, pushes>>
    /\ UNCHANGED <<useDemoMode, toastVars, serverVars>>
    /\ Rerender

\* ErrorState.handleRetry, from the Retry button.  No caller passes onRetry;
\* window.location.reload() loads the page again, so every hook is back at
\* its default and the effects run again.
handleRetry ==
    /\ ~crashed
    /\ ErrorPanelShown
    /\ apiStatus' = StatusUndefined
    /\ totalTokens' = "0"
    /\ totalCost' = "$0.00"
    /\ activeModels' = "0"
    /\ apiCalls' = "0"
    /\ chartsRaw' = [id \in ChartIds |-> EmptyObject]
    /\ usageTableDataRaw' = RawUndefined
    /\ costTableDataRaw' = RawUndefined
    /\ availableWorkspaces' = <<>>
    /\ availableApiKeys' = <<>>
    /\ availableModels' = <<>>
    /\ memo' = [id \in ChartIds |-> Reshape(id, EmptyObject)]
    /\ sorted' = [workspace |-> <<>>, apiKey |-> <<>>]
    /\ workspaceTableSort' = InitialSort.workspace
    /\ apiKeyTableSort' = InitialSort.apiKey
    /\ startDateObj' = NoDate
    /\ endDateObj' = NoDate
    /\ selectedWorkspace' = "all"
    /\ selectedApiKey' = "all"
    /\ selectedModel' = "all"
    /\ selectedGranularity' = "1d"
    /\ startDate' = EmptyString
    /\ endDate' = EmptyString
    /\ useDemoMode' = FALSE
    /\ demoMode' = FALSE
    /\ usageRows' = <<>>
    /\ costRows' = <<>>
    /\ effectsRan' = FALSE
    /\ shinyAvailable' = FALSE
    /\ toastMounted' = FALSE
    /\ timers' = <<>>
    /\ registrations' = 0
    /\ polls' = 0
    /\ delivered' = <<>>
    /\ toasts' = <<>>
    /\ UNCHANGED <<envVars, crashed, pushes, serverVars>>
    /\ Rerender


\* Time passes.
Tick(t) ==
    /\ t > now
    /\ now' = t
    /\ UNCHANGED <<outputVars, memo, sorted, tableVars, sortVars, filterVars, dateVars,
                   useDemoMode, demoMode, rendered, component, zone, effectsRan, crashed,
                   pushes, toastVars, serverVars>>

(***************************************************************************)
(* Values the backend sends.                                               *)
(***************************************************************************)
StatusValues ==
    {Status("connected"), Status("demo"), Status("error"), Status("partial"),
     Status("maintenance")}

KpiIds == {"total_tokens", "total_cost", "active_models", "api_calls"}

KpiValues(id) ==
    CASE id = "total_tokens" -> {"0", "1500"}
      [] id = "total_cost" -> {"$0.00", "$12.50"}
      [] id = "active_models" -> {"0", "3"}
      [] id = "api_calls" -> {"0", "42"}

\* The column-major object of a data frame: one array per column name.
Frame(names, rows) ==
    Obj([k \in 1..Len(names) |->
            Col(names[k], [i \in 1..Len(rows) |-> rows[i][k]])])

\* Columns of each output, key column first.
ColumnNames(id) ==
    CASE id = "token_usage_chart_data" -> <<"date", "input_tokens", "output_tokens">>
      [] id = "cost_by_model_chart_data" -> <<"model", "cost">>
      [] id = "service_tier_chart_data" -> <<"service_tier", "tokens">>
      [] id = "workspace_cost_chart_data" -> <<"workspace", "cost">>
      [] id = "api_key_usage_chart_data" -> <<"api_key", "tokens">>
      [] id = "workspace_cost_table_data" ->
            <<"workspace", "cost", "input_tokens", "output_tokens", "total_tokens",
              "creation_time">>
      [] id = "api_key_usage_table_data" ->
            <<"api_key", "workspace", "input_tokens", "output_tokens", "total_tokens",
              "creation_time">>

\* Rows a data frame of each output may hold; null is a missing value.
SampleRows(id) ==
    CASE id = "token_usage_chart_data" ->
            <<<<Str("2024-01-15"), Num(10), Num(20)>>,
              <<Str("2024-01-16"), JSNull, Num(5)>>>>
      [] id = "cost_by_model_chart_data" ->
            <<<<Str("claude-3-haiku"), Num(3)>>, <<JSNull, Num(0)>>>>
      [] id = "service_tier_chart_data" ->
            <<<<Str("batch"), Num(7)>>, <<Str(""), JSNull>>>>
      [] id = "workspace_cost_chart_data" ->
            <<<<Str("alpha"), Num(2)>>, <<JSNull, Num(1)>>>>
      [] id = "api_key_usage_chart_data" ->
            <<<<Str("key-a"), Num(9)>>, <<Str("Key-B"), JSNull>>>>
      [] id = "workspace_cost_table_data" ->
            <<<<Str("alpha"), Num(2), Num(1), Num(3), Num(4), Str("2024-03-01T00:00:00Z")>>,
              <<Str("Beta"), Num(1), Num(2), Num(1), Num(3), Str("2024-01-15T00:00:00Z")>>,
              <<Str("beta"), Num(2), Num(2), Num(2), Num(4), JSNull>>>>
      [] id = "api_key_usage_table_data" ->
            <<<<Str("key-a"), Str("alpha"), Num(1), Num(2), Num(3),
                Str("2024-01-15T00:00:00Z")>>,
              <<Str("Key-B"), JSNull, Num(2), Num(1), Num(3), JSNull>>>>

\* What one chart output may be sent as: nothing useful (null), a data
\* frame of one or two rows, or an object that has the key column only.
\* The values pushed to output id: no columns, null, one row, two rows, the
\* key column alone; for the workspace table also a row whose cost is a
\* string and two rows beside a `total` member.
ChartSamples(id) ==
    {EmptyObject, RawNull,
     Frame(ColumnNames(id), <<SampleRows(id)[1]>>),
     Frame(ColumnNames(id), <<SampleRows(id)[2], SampleRows(id)[1]>>),
     Obj(<<Col(ColumnNames(id)[1], <<SampleRows(id)[1][1]>>)>>)}
    \cup
    IF id = "workspace_cost_table_data"
    THEN {Frame(ColumnNames(id),
                <<<<Str("alpha"), Str("a"), Num(1), Num(3), Num(4),
                    Str("2024-03-01T00:00:00Z")>>>>),
          Obj(Frame(ColumnNames(id), <<SampleRows(id)[2], SampleRows(id)[1]>>).cols
              \o <<Col("total", <<Num(7)>>)>>)}
    ELSE {}

UsageColumns == <<"date", "model", "input_tokens", "output_tokens", "service_tier">>

CostColumns == <<"date", "description", "amount", "model">>

UsageSamples ==
    {Frame(UsageColumns,
           <<<<Str("2024-01-15"), Str("claude-3-haiku"), Num(10), Num(20), Str("standard")>>>>),
     Frame(UsageColumns,
           <<<<Str("2024-01-16"), Str("claude-3-opus"), Num(1), Num(0), Str("batch")>>,
             <<Str("2024-01-15"), Str("claude-3-haiku"), Num(10), Num(20), Str("standard")>>>>),
     Frame(UsageColumns, <<>>)}

CostSamples ==
    {Frame(CostColumns,
           <<<<Str("2024-01-15"), Str("Token usage"), Num(3), Str("claude-3-haiku")>>>>),
     Frame(CostColumns,
           <<<<Str("2024-01-16"), Str("Web search"), Num(1), Str("claude-3-opus")>>,
             <<Str("2024-01-15"), Str("Token usage"), Num(3), Str("claude-3-haiku")>>>>),
     Frame(CostColumns, <<>>)}

(***************************************************************************)
(* Spec: the outputs that carry status and data, and the demo-mode         *)
(* controls.  The filter draft that Dashboard mounts is FilterControls.    *)
(***************************************************************************)
Init ==
    /\ InitPage
    /\ component = "FilterControls"
    /\ now = 2529
    /\ zone = UTC

Next ==
    \/ \E s \in StatusValues : ReceiveApiStatus(s)
    \/ \E id \in KpiIds : \E value \in KpiValues(id) : ReceiveKpi(id, value)
    \/ \E id \in ChartIds : \E raw \in ChartSamples(id) : ReceiveChartOutput(id, raw)
    \/ \E raw \in UsageSamples : ReceiveUsageTable(raw)
    \/ \E raw \in CostSamples : ReceiveCostTable(raw)
    \/ \E checked \in BOOLEAN : handleToggle(checked)
    \/ handleEnableDemoMode
    \/ handleRetry
    \/ MountEffect

Spec == Init /\ [][Next]_vars

(***************************************************************************)
(* C1  The error panel of StatsCards and ChartsSection.                    *)
(***************************************************************************)
\* The latest api_status has status "error".
StatusIsError == apiStatus.received /\ apiStatus.status = "error"

\* The four KPI outputs hold the values they have before any push.
KpisAtDefault ==
    totalTokens = "0" /\ totalCost = "$0.00" /\ activeModels = "0" /\ apiCalls = "0"

\* None of the five chart outputs reshapes to a row.
ChartDataEmpty == \A id \in ChartDataIds : Reshape(id, chartsRaw[id]).rows = <<>>

\* The view is ErrorState with the Retry and the View Demo Data buttons.
IsErrorPanel(view) ==
    view.kind = "error_panel" /\ view.showRetryButton /\ view.showDemoModeButton

\* C1 as stated: whenever the latest api_status has status "error", StatsCards
\* and ChartsSection both render the error panel, whatever KPI values and
\* chart data were last received.
C1_ErrorPanelWheneverStatusError ==
    (StatusIsError /\ ~crashed) =>
        IsErrorPanel(rendered.stats) /\ IsErrorPanel(rendered.charts)

\* C1 amended: with status "error", StatsCards renders the error panel (with
\* both buttons) exactly when the four KPI values are all still the defaults,
\* and ChartsSection exactly when all five chart datasets are empty; with any
\* other KPI value or any chart row they render the cards and the charts.
C1_ErrorPanelOnlyWithoutData ==
    (StatusIsError /\ ~crashed) =>
        /\ IF KpisAtDefault
           THEN IsErrorPanel(rendered.stats)
           ELSE rendered.stats.kind = "cards"
        /\ IF ChartDataEmpty
           THEN IsErrorPanel(rendered.charts)
           ELSE rendered.charts.kind = "charts"

\* Status "error" with a KPI received and no chart data: cards beside the
\* error panel of the charts.
C1_Witness ==
    /\ StatusIsError
    /\ ~KpisAtDefault
    /\ ChartDataEmpty
    /\ rendered.stats.kind = "cards"
    /\ IsErrorPanel(rendered.charts)

(***************************************************************************)
(* C2  Falling back to demo data.                                          *)
(***************************************************************************)
\* The scheduling React guarantees: an effect of a mounted component runs.
\* Nothing makes the backend push or the user click.
FairSpec == Spec /\ WF_vars(MountEffect)

\* The front-end shows demo data: the use_demo_mode input is true, or the
\* status display reads "Demo Data".
ShowsDemoData == useDemoMode \/ demoMode \/ rendered.toggle.text = "Demo Data"

\* C2: from every state in which api_status has status "error", the front-end
\* eventually shows demo data (a page whose render has thrown shows nothing
\* and is not held against the claim).
C2_ErrorLeadsToDemoData == (StatusIsError /\ ~crashed) ~> (ShowsDemoData \/ crashed)

(***************************************************************************)
(* FilterSpec: the seven inputs, under each draft of the filter component. *)
(***************************************************************************)
AvailableIds == {"available_workspaces", "available_api_keys", "available_models"}

\* The ids the backend lists for a select.
AvailableLists(id) ==
    CASE id = "available_workspaces" -> {<<"ws-1">>}
      [] id = "available_api_keys" -> {<<"key-1">>}
      [] id = "available_models" -> {<<"claude-3-haiku">>}

\* Days a user picks in a calendar.
PickableDays == {104}

FilterInit ==
    /\ InitPage
    /\ component \in Components
    /\ now = 2529
    /\ zone = UTC

FilterNext ==
    \/ \E s \in {Status("connected"), Status("error")} : ReceiveApiStatus(s)
    \/ \E id \in AvailableIds : \E list \in AvailableLists(id) : ReceiveAvailable(id, list)
    \/ \E value \in SelectItems(availableWorkspaces) : handleWorkspaceChange(value)
    \/ \E value \in SelectItems(availableApiKeys) : setSelectedApiKey(value)
    \/ \E value \in SelectItems(availableModels) : setSelectedModel(value)
    \/ \E value \in granularityOptions(component) : setSelectedGranularity(value)
    \/ \E d \in PickableDays : handleStartDateSelect(CalendarDay(d))
    \/ \E d \in PickableDays : handleEndDateSelect(CalendarDay(d))
    \/ \E days \in PresetDays(component) : setPresetRange(days)
    \/ \E checked \in BOOLEAN : handleToggle(checked)
    \/ handleEnableDemoMode
    \/ handleRetry
    \/ MountEffect

FilterSpec == FilterInit /\ [][FilterNext]_vars

(***************************************************************************)
(* C3  Who writes the inputs.                                              *)
(***************************************************************************)
\* A step that is the handler of a UI control event: a select change, a
\* calendar pick, a preset click, the switch, a button of the error panel.
UserEvent ==
    \/ \E value \in SelectItems(availableWorkspaces) : handleWorkspaceChange(value)
    \/ \E value \in SelectItems(availableApiKeys) : setSelectedApiKey(value)
    \/ \E value \in SelectItems(availableModels) : setSelectedModel(value)
    \/ \E value \in granularityOptions(component) : setSelectedGranularity(value)
    \/ \E date \in {NoDate} \cup {CalendarDay(d) : d \in PickableDays} :
          handleStartDateSelect(date) \/ handleEndDateSelect(date)
    \/ \E days \in PresetDays(component) : setPresetRange(days)
    \/ \E checked \in BOOLEAN : handleToggle(checked)
    \/ handleEnableDemoMode
    \/ handleRetry

\* C3 as stated: the seven inputs change only in the handler of a UI control
\* event; none is written without a user event.
C3_InputsWrittenOnlyByControls == [][inputVars' # inputVars => UserEvent]_vars

\* C3 amended: date_start and date_end are also written, without any user
\* event, by the effect that runs when the filter component mounts; apart
\* from that the seven inputs change only in the handler of a UI control
\* event, the four filter inputs and use_demo_mode in no other way, and no
\* update of a backend output writes an input.
C3_InputsWrittenByControlsOrMount ==
    [][/\ inputVars' # inputVars => (UserEvent \/ MountEffect)
       /\ <<filterVars, useDemoMode>>' # <<filterVars, useDemoMode>> => UserEvent
       /\ pushes' # pushes => inputVars' = inputVars]_vars

\* The mount effect has set the dates, the backend has pushed, and the user
\* has used a select and the switch.
C3_Witness ==
    /\ effectsRan
    /\ ~startDate.empty
    /\ pushes > 0
    /\ selectedWorkspace # "all"
    /\ useDemoMode
    /\ demoMode

(***************************************************************************)
(* C4  Rendered rows reflect the latest value of their own output.         *)
(***************************************************************************)
\* C4: after any sequence of pushes, the rows of every chart and table are
\* the reshaping of the value its own output was last sent (so nothing of an
\* earlier value is kept, and a push to another output changes nothing of
\* them); the two sortable tables show those rows in their sort order.
C4_RowsReflectLatestValue ==
    /\ \A id \in ChartIds : memo[id] = Reshape(id, chartsRaw[id])
    /\ usageRows = processUsageData(usageTableDataRaw)
    /\ costRows = processCostData(costTableDataRaw)
    /\ ~crashed =>
          /\ sorted.workspace =
                sortedWorkspaceCostTableData(
                    Reshape("workspace_cost_table_data",
                            chartsRaw["workspace_cost_table_data"]).rows,
                    workspaceTableSort)
          /\ sorted.apiKey =
                sortedApiKeyUsageTableData(
                    Reshape("api_key_usage_table_data",
                            chartsRaw["api_key_usage_table_data"]).rows,
                    apiKeyTableSort)

\* Three pushes, to three outputs, each showing its own rows.
C4_Witness ==
    /\ ~crashed
    /\ pushes >= 3
    /\ Len(memo["token_usage_chart_data"].rows) = 1
    /\ Len(sorted.workspace) = 2
    /\ Len(usageRows) = 2
    /\ Len(costRows) = 0

(***************************************************************************)
(* ReshapeSpec: the two table outputs of DataTableSection over every       *)
(* column-major object of up to three columns and MaxLen cells a column.   *)
(***************************************************************************)
Cells == {Str("a"), Num(1)}

\* The arrays a column may be.
Arrays == UNION {[1..n -> Cells] : n \in 0..MaxLen}

\* The orders in which an object may list some of `names`.
NameOrders(names) ==
    {ord \in UNION {[1..k -> names] : k \in 0..Cardinality(names)} :
        \A i, j \in 1..Len(ord) : i # j => ord[i] # ord[j]}

\* Every value of a table output: not yet received, null, a string, or an
\* object.
ReshapeInputs(names) ==
    {RawUndefined, RawNull, RawString} \cup
    UNION {{Obj([k \in 1..Len(ord) |-> Col(ord[k], data[k])]) :
               data \in [1..Len(ord) -> Arrays]} : ord \in NameOrders(names)}

UsageNames == {"model", "input_tokens", "output_tokens"}

CostNames == {"model", "amount"}

ReshapeInit ==
    /\ InitPage
    /\ component = "FilterControls"
    /\ now = 2529
    /\ zone = UTC

\* The first value a table is sent is any object; later values are frames.
ReshapeNext ==
    \/ pushes = 0 /\ \E raw \in ReshapeInputs(UsageNames) : ReceiveUsageTable(raw)
    \/ pushes = 0 /\ \E raw \in ReshapeInputs(CostNames) : ReceiveCostTable(raw)
    \/ pushes > 0 /\ \E raw \in UsageSamples : ReceiveUsageTable(raw)
    \/ pushes > 0 /\ \E raw \in CostSamples : ReceiveCostTable(raw)
    \/ MountEffect

ReshapeSpec == ReshapeInit /\ [][ReshapeNext]_vars

(***************************************************************************)
(* C5  Column-major to row-major.                                          *)
(***************************************************************************)
\* raw is an object all of whose columns have n cells.
SameLength(raw, n) ==
    raw.kind = "object" /\ \A k \in 1..Len(raw.cols) : Len(raw.cols[k].data) = n

\* rows are the n rows of raw: row i has exactly raw's columns, and its field
\* c is raw[c][i].
RowsOf(raw, rows, n) ==
    /\ Len(rows) = n
    /\ \A i \in 1..n :
          /\ Len(rows[i]) = Len(raw.cols)
          /\ \A k \in 1..Len(raw.cols) :
                Field(rows[i], raw.cols[k].name) = raw.cols[k].data[i]

Transposed(raw, rows) ==
    /\ raw.kind = "undefined" => rows = <<>>
    /\ (raw.kind = "object" /\ Len(raw.cols) = 0) => rows = <<>>
    /\ \A n \in 0..(MaxLen + 1) :
          (SameLength(raw, n) /\ Len(raw.cols) > 0) => RowsOf(raw, rows, n)

\* C5: for an object whose columns all have n cells, processUsageData and
\* processCostData return n rows and row i has field c equal to raw[c][i],
\* for every column c; for an output not yet received, or an object without
\* columns, they return the empty list.
C5_ReshapeTransposes ==
    /\ Transposed(usageTableDataRaw, usageRows)
    /\ Transposed(costTableDataRaw, costRows)

\* A usage table of three columns and two rows, from an object whose first
\* column differs from row to row.
C5_Witness ==
    /\ SameLength(usageTableDataRaw, 2)
    /\ Len(usageTableDataRaw.cols) = 3
    /\ usageTableDataRaw.cols[1].data[1] # usageTableDataRaw.cols[1].data[2]
    /\ Len(usageRows) = 2
    /\ ~crashed

(***************************************************************************)
(* SortSpec: the two sortable tables of ChartsSection.  One table is sent  *)
(* any frame of up to MaxRows of its rows, in any order and with repeats;  *)
(* then a second frame arrives; the user clicks column headers throughout. *)
(***************************************************************************)
TableIds == {"workspace_cost_table_data", "api_key_usage_table_data"}

\* The sequences of at most n elements of the sequence `universe`.
SeqsUpTo(universe, n) ==
    UNION {[1..k -> {universe[j] : j \in 1..Len(universe)}] : k \in 0..n}

TableFrames(id) ==
    {Frame(ColumnNames(id), rows) : rows \in SeqsUpTo(SampleRows(id), MaxRows)}

SecondFrames(id) ==
    {Frame(ColumnNames(id), <<SampleRows(id)[1]>>),
     Frame(ColumnNames(id), <<SampleRows(id)[2], SampleRows(id)[1]>>)}

SortInit ==
    /\ InitPage
    /\ component = "FilterControls"
    /\ now = 2529
    /\ zone = UTC

SortNext ==
    \/ pushes = 0 /\ \E id \in TableIds : \E raw \in TableFrames(id) :
          ReceiveChartOutput(id, raw)
    \/ pushes = 1 /\ \E id \in TableIds : \E raw \in SecondFrames(id) :
          ReceiveChartOutput(id, raw)
    \/ \E column \in WorkspaceColumns : handleWorkspaceSortChange(column)
    \/ \E column \in ApiKeyColumns : handleApiKeySortChange(column)

SortSpec == SortInit /\ [][SortNext]_vars

(***************************************************************************)
(* C6  The sort state machine.                                             *)
(***************************************************************************)
\* The state a click on column c leads to from `prev`, as C6 gives it.
AfterClick(prev, c) ==
    [column |-> c,
     direction |-> IF prev = [column |-> c, direction |-> "asc"] THEN "desc" ELSE "asc"]

\* C6: the tables start at (cost, desc) and (total_tokens, desc); a click on
\* the header of column c leads to (c, desc) exactly when the state was
\* (c, asc) and to (c, asc) otherwise, and leaves the sort state of the other
\* table alone; nothing but a click on its own headers changes a table's
\* sort state.
C6_SortStateMachine ==
    /\ workspaceTableSort = [column |-> "cost", direction |-> "desc"]
    /\ apiKeyTableSort = [column |-> "total_tokens", direction |-> "desc"]
    /\ [][/\ \A c \in WorkspaceColumns :
               handleWorkspaceSortChange(c) =>
                   /\ workspaceTableSort' = AfterClick(workspaceTableSort, c)
                   /\ apiKeyTableSort' = apiKeyTableSort
          /\ \A c \in ApiKeyColumns :
               handleApiKeySortChange(c) =>
                   /\ apiKeyTableSort' = AfterClick(apiKeyTableSort, c)
                   /\ workspaceTableSort' = workspaceTableSort
          /\ workspaceTableSort' # workspaceTableSort =>
               \E c \in WorkspaceColumns : handleWorkspaceSortChange(c)
          /\ apiKeyTableSort' # apiKeyTableSort =>
               \E c \in ApiKeyColumns : handleApiKeySortChange(c)]_vars

\* Two clicks on one header of the workspace table, and a click on another
\* column of the API-key table after a click that left it ascending.
C6_Witness ==
    /\ workspaceTableSort = [column |-> "workspace", direction |-> "desc"]
    /\ apiKeyTableSort = [column |-> "api_key", direction |-> "asc"]

(***************************************************************************)
(* C7  The sorted rows.                                                    *)
(***************************************************************************)
\* Times row r occurs in rows.
Occurrences(rows, r) == Cardinality({i \in 1..Len(rows) : rows[i] = r})

IsPermutation(a, b) ==
    /\ Len(a) = Len(b)
    /\ \A i \in 1..Len(a) : Occurrences(a, a[i]) = Occurrences(b, a[i])

\* The value a column is ordered by: the number, the instant, or the
\* lower-case text.
SortKey(numericColumns, column, row) == Comparable(numericColumns, column, row[column])

IsOrdered(numericColumns, sort, rows) ==
    \A i, j \in 1..Len(rows) :
        i < j =>
            IF sort.direction = "asc"
            THEN SortKey(numericColumns, sort.column, rows[i])
                    <= SortKey(numericColumns, sort.column, rows[j])
            ELSE SortKey(numericColumns, sort.column, rows[i])
                    >= SortKey(numericColumns, sort.column, rows[j])

\* C7: in every sort state and for every reshaped rows, each table shows a
\* permutation of its reshaped rows, non-decreasing (asc) or non-increasing
\* (desc) in the selected column, compared as numbers, instants or
\* lower-case text.
C7_SortedPermutation ==
    ~crashed =>
        /\ IsPermutation(sorted.workspace, memo["workspace_cost_table_data"].rows)
        /\ IsOrdered({"cost", "input_tokens", "output_tokens", "total_tokens"},
                     workspaceTableSort, sorted.workspace)
        /\ IsPermutation(sorted.apiKey, memo["api_key_usage_table_data"].rows)
        /\ IsOrdered({"input_tokens", "output_tokens", "total_tokens"},
                     apiKeyTableSort, sorted.apiKey)

\* A full workspace table with different names, shown
\* by descending workspace name in an order other than the received one.
C7_Witness ==
    /\ Len(sorted.workspace) = MaxRows
    /\ workspaceTableSort = [column |-> "workspace", direction |-> "desc"]
    /\ sorted.workspace # memo["workspace_cost_table_data"].rows
    /\ sorted.workspace # Reverse(memo["workspace_cost_table_data"].rows)
    /\ \E i, j \in 1..Len(sorted.workspace) :
          sorted.workspace[i].workspace # sorted.workspace[j].workspace

(***************************************************************************)
(* C8  The badge of DemoModeToggle.                                        *)
(***************************************************************************)
\* C8: with the local use_demo_mode value of DemoModeToggle (demoMode) true the
\* badge reads "Demo Data" in the secondary variant whatever api_status is; otherwise it reads "Loading..." before
\* api_status has been received, "Live Data" for connected, "API Error" for
\* error and "Demo Data" for demo; the variant is destructive exactly when
\* use_demo_mode is false and the status is error, and default exactly when
\* use_demo_mode is false and the status is connected.
C8_BadgeDerivation ==
    ~crashed =>
        /\ rendered.toggle.checked = demoMode
        /\ demoMode =>
              rendered.toggle.text = "Demo Data" /\ rendered.toggle.variant = "secondary"
        /\ (~demoMode /\ ~apiStatus.received) => rendered.toggle.text = "Loading..."
        /\ (~demoMode /\ apiStatus.received /\ apiStatus.status = "connected") =>
              rendered.toggle.text = "Live Data"
        /\ (~demoMode /\ apiStatus.received /\ apiStatus.status = "error") =>
              rendered.toggle.text = "API Error"
        /\ (~demoMode /\ apiStatus.received /\ apiStatus.status = "demo") =>
              rendered.toggle.text = "Demo Data"
        /\ rendered.toggle.variant = "destructive" <=> (~demoMode /\ StatusIsError)
        /\ rendered.toggle.variant = "default" <=>
              (~demoMode /\ apiStatus.received /\ apiStatus.status = "connected")

\* Demo mode switched on while the status is error.
C8_Witness ==
    /\ demoMode
    /\ StatusIsError
    /\ rendered.toggle.text = "Demo Data"
    /\ rendered.toggle.variant = "secondary"

(***************************************************************************)
(* C9  Statuses other than connected, demo and error.                      *)
(***************************************************************************)
\* api_status has been received with a status other than the three.
OtherStatus ==
    apiStatus.received /\ apiStatus.status \notin {"connected", "demo", "error"}

\* ApiStatusCard and the sidebar show their fallback.
CardsShowFallback ==
    /\ rendered.statusCard = [icon |-> "dot", color |-> "gray", text |-> "Unknown"]
    /\ rendered.sidebar = [icon |-> "dot", color |-> "gray", text |-> "Unknown"]

\* C9 as stated: DemoModeToggle, ApiStatusCard and the sidebar ApiStatus give
\* every status other than connected, demo and error their generic fallback
\* (the badge: the secondary variant with the status value as its text; the
\* two cards: "Unknown"), with no case of its own for any of them.
C9_OnlyThreeStatuses ==
    (~crashed /\ OtherStatus) =>
        /\ CardsShowFallback
        /\ ~demoMode =>
              /\ rendered.toggle.variant = "secondary"
              /\ rendered.toggle.text = apiStatus.status

\* C9 amended: ApiStatusCard and the sidebar ApiStatus distinguish only
\* connected, demo and error and show "Unknown" for any other status;
\* DemoModeToggle also has a case of its own for "partial", shown as
\* "Partial Data", and shows any other status value itself as the text of
\* the badge, in the secondary variant.
C9_PartialHasItsOwnCase ==
    (~crashed /\ OtherStatus) =>
        /\ CardsShowFallback
        /\ ~demoMode =>
              /\ rendered.toggle.variant = "secondary"
              /\ rendered.toggle.text =
                    IF apiStatus.status = "partial" THEN "Partial Data"
                    ELSE apiStatus.status

\* Status "partial" with demo mode off.
C9_Witness ==
    /\ ~demoMode
    /\ apiStatus = Status("partial")
    /\ rendered.toggle.text = "Partial Data"
    /\ rendered.statusCard.text = "Unknown"

(***************************************************************************)
(* DateSpec: the date range, in browsers of several time zones and at      *)
(* several instants around a UTC midnight and a change of clocks.          *)
(* Day 100 is the day the clocks change; the clock reads day 104 to 106.   *)
(***************************************************************************)
\* Clocks are set back one hour at 06:00 UTC of day 100 (02:00 local), as
\* in America/New_York in autumn.
AutumnWest == [std |-> -5, dstFrom |-> 0, dstTo |-> 2406]

\* Clocks are set forward one hour at 16:00 UTC of day 100 (02:00 local),
\* as in Australia/Sydney in spring.
SpringEast == [std |-> 10, dstFrom |-> 2416, dstTo |-> 9999]

\* No change of clocks, as in Asia/Tokyo.
FixedEast == [std |-> 9, dstFrom |-> 0, dstTo |-> 0]

Zones == {UTC, AutumnWest, SpringEast, FixedEast}

DateInit ==
    /\ InitPage
    /\ component \in {c \in Components : HasDates(c)}
    /\ now \in Instants
    /\ zone \in Zones

DateNext ==
    \/ MountEffect
    \/ \E days \in PresetDays(component) : setPresetRange(days)
    \/ \E date \in {NoDate} \cup {CalendarDay(d) : d \in PickableDays} :
          handleStartDateSelect(date)
    \/ \E date \in {NoDate} \cup {CalendarDay(d) : d \in PickableDays} :
          handleEndDateSelect(date)
    \/ \E t \in Instants : Tick(t)

DateSpec == DateInit /\ [][DateNext]_vars

(***************************************************************************)
(* C10  The preset ranges.                                                 *)
(***************************************************************************)
\* The day toISOString gives for the instant the clock reads.
Today == now \div 24

\* C10: setPresetRange(days), for every preset offered, and the mount effect
\* with days = 7, set the pickers and write date_start = (today minus days)
\* at 00:00:00Z and date_end = today at 23:59:59Z, so that date_start is not
\* later than date_end and the two are exactly `days` days apart.
C10_PresetRange ==
    [][\A days \in PresetDays(component) \cup {7} :
          ((days \in PresetDays(component) /\ setPresetRange(days))
              \/ (days = 7 /\ MountEffect)) =>
             /\ startDateObj'.defined /\ endDateObj'.defined
             /\ endDate' = IsoText(Today, "T23:59:59Z")
             /\ startDate' = IsoText(Today - days, "T00:00:00Z")
             /\ startDate'.day <= endDate'.day
             /\ endDate'.day - startDate'.day = days]_vars

(***************************************************************************)
(* C11  Granularity and bucket_width.                                      *)
(***************************************************************************)
\* The bucket_width values of the usage-report API.
BucketWidths == {"1d", "1m", "1h"}

\* C11: the value of filter_granularity, its default and whatever a
\* granularity select writes, is always a bucket_width the usage-report API
\* accepts.
C11_GranularityIsBucketWidth == selectedGranularity \in BucketWidths

(***************************************************************************)
(* C12  A workspace change resets the API-key filter.                      *)
(***************************************************************************)
\* C12: handleWorkspaceChange(v) sets filter_workspace_id to v, resets
\* filter_api_key_id to "all" whatever key was selected, and leaves
\* filter_model, filter_granularity, date_start and date_end unchanged.
C12_WorkspaceChangeResetsApiKey ==
    [][\A v \in SelectItems(availableWorkspaces) :
          handleWorkspaceChange(v) =>
             /\ selectedWorkspace' = v
             /\ selectedApiKey' = "all"
             /\ selectedModel' = selectedModel
             /\ selectedGranularity' = selectedGranularity
             /\ startDate' = startDate
             /\ endDate' = endDate]_vars

\* A workspace is selected, the API-key filter is "all" although keys are
\* listed, and the other filters hold values the user chose.
C12_Witness ==
    /\ selectedWorkspace = "ws-1"
    /\ availableApiKeys # <<>>
    /\ selectedApiKey = "all"
    /\ selectedModel # "all"
    /\ selectedGranularity # "1d"
    /\ ~startDate.empty

(***************************************************************************)
(* C13  The format of date_start and date_end.                             *)
(***************************************************************************)
\* C13 as stated: in every reachable state date_start is a calendar date
\* followed by T00:00:00Z and date_end a calendar date followed by
\* T23:59:59Z.
C13_DatesAreIso ==
    /\ ~startDate.empty /\ startDate.time = "T00:00:00Z"
    /\ ~endDate.empty /\ endDate.time = "T23:59:59Z"

\* C13 amended: date_start and date_end are the empty string until something
\* writes them; once written, by the mount effect, a preset or a calendar,
\* date_start is a calendar date followed by T00:00:00Z and date_end a
\* calendar date followed by T23:59:59Z; after the mount effect has run
\* neither is empty.
C13_DatesAreEmptyOrIso ==
    /\ startDate.empty \/ startDate.time = "T00:00:00Z"
    /\ endDate.empty \/ endDate.time = "T23:59:59Z"
    /\ effectsRan => (~startDate.empty /\ ~endDate.empty)

\* date_start written by a calendar pick and date_end by the mount effect or
\* a preset.
C13_Witness ==
    /\ effectsRan
    /\ startDateObj \in {CalendarDay(d) : d \in PickableDays}
    /\ startDate.time = "T00:00:00Z"
    /\ endDate = IsoText(Today, "T23:59:59Z")
    /\ startDate.day # endDate.day

(***************************************************************************)
(* C14  No error panel without status "error".                             *)
(***************************************************************************)
\* C14: while api_status has not been received, or its status is
\* "connected" or "demo", neither StatsCards nor ChartsSection renders the
\* error panel, whatever the KPI values and the chart data are.
C14_NoErrorPanelWhileHealthy ==
    (~apiStatus.received \/ apiStatus.status \in {"connected", "demo"}) =>
        /\ rendered.stats.kind # "error_panel"
        /\ rendered.charts.kind # "error_panel"

\* Status "demo" received while every KPI is at its default and no chart has
\* a row: the data half of the error test holds, the cards and charts show.
C14_Witness ==
    /\ apiStatus.received
    /\ apiStatus.status = "demo"
    /\ KpisAtDefault
    /\ ChartDataEmpty
    /\ rendered.stats.kind = "cards"
    /\ rendered.charts.kind = "charts"

(***************************************************************************)
(* The R backend: sessions, inputs and the evaluation of the outputs.      *)
(* plot1 (an image) and activity_feed are left out: they are neither       *)
(* inputs nor outputs of anything the model follows.                       *)
(***************************************************************************)
\* Clicks of the button in one session.
MaxClicks == 2

\* What sample(800:1200, 1), round(runif(1, 2.5, 4.8), 1) in tenths and
\* Sys.time() may give in one evaluation.
Draws ==
    [sessions : {800, 1200}, rate : {25, 48}, time : {"12:00:00.00", "12:00:00.01"}]

\* The texts typed into user_text.
SampleTexts == {Value(<<>>), Value(<<"a", "b">>)}

\* An output that has not been rendered.
NotRendered == [rendered |-> FALSE]

\* A session starts: shiny runs every render function once; button_response
\* is bound to the button and is not rendered while button_trigger is NULL.
SessionStart(s, draw) ==
    /\ output[s] = NoSession
    /\ output' = [output EXCEPT ![s] =
                    [started |-> TRUE,
                     values |-> [id \in OutputIds |->
                                   IF id = "button_response"
                                   THEN NotRendered
                                   ELSE Evaluate(id, input[s], draw)]]]
    /\ UNCHANGED <<input, pageVars, toastVars>>

\* The page sets user_text: the two outputs that read it are invalidated and
\* rendered again.
setUserText(s, text, draw) ==
    /\ output[s] # NoSession
    /\ input[s].user_text # text
    /\ input' = [input EXCEPT ![s].user_text = text]
    /\ output' = [output EXCEPT
                    ![s].values["processed_text"] = Evaluate("processed_text", input'[s], draw),
                    ![s].values["text_length"] = Evaluate("text_length", input'[s], draw)]
    /\ UNCHANGED <<pageVars, toastVars>>

\* The page counts a click in button_trigger: bindEvent renders
\* button_response.
clickButton(s, draw) ==
    /\ output[s] # NoSession
    /\ IF input[s].button_trigger.null THEN TRUE ELSE input[s].button_trigger.v < MaxClicks
    /\ input' = [input EXCEPT ![s].button_trigger =
                    IF input[s].button_trigger.null
                    THEN Value(1)
                    ELSE Value(input[s].button_trigger.v + 1)]
    /\ output' = [output EXCEPT
                    ![s].values["button_response"] = Evaluate("button_response", input'[s], draw)]
    /\ UNCHANGED <<pageVars, toastVars>>

\* Shiny evaluates one render function of a running session again.
ReEvaluate(s, id, draw) ==
    /\ output[s] # NoSession
    /\ id # "button_response"
    /\ output' = [output EXCEPT ![s].values[id] = Evaluate(id, input[s], draw)]
    /\ UNCHANGED <<input, pageVars, toastVars>>

ServerNext ==
    \/ \E s \in Sessions, draw \in Draws : SessionStart(s, draw)
    \/ \E s \in Sessions, text \in SampleTexts, draw \in Draws : setUserText(s, text, draw)
    \/ \E s \in Sessions, draw \in Draws : clickButton(s, draw)
    \/ \E s \in Sessions, id \in OutputIds, draw \in Draws : ReEvaluate(s, id, draw)

ServerSpec == Init /\ [][ServerNext]_vars

(***************************************************************************)
(* C15  The outputs computed from the sample data frames only.             *)
(***************************************************************************)
\* The outputs the claim names.
FixedOutputs ==
    {"total_users", "total_revenue", "table_data", "monthly_chart_data",
     "trend_chart_data", "category_chart_data"}

\* C15: total_users, total_revenue, table_data, monthly_chart_data,
\* trend_chart_data and category_chart_data come from the fixed data frames
\* only: any two running sessions hold the same values whatever their
\* user_text and button_trigger are (total_users is the text 27140 and
\* total_revenue the text 73500), and no step, a re-evaluation included,
\* changes the value a running session holds.
C15_FixedOutputsIgnoreSessionAndInput ==
    /\ [](\A s \in Sessions :
            output[s].started =>
               /\ output[s].values["total_users"] = "27140"
               /\ output[s].values["total_revenue"] = "73500"
               /\ \A t \in Sessions, id \in FixedOutputs :
                     output[t].started => output[s].values[id] = output[t].values[id])
    /\ [][\A s \in Sessions, id \in FixedOutputs :
             output[s].started => output'[s].values[id] = output[s].values[id]]_vars

\* Two running sessions with different inputs and different simulated
\* values, one of them with a click, and the same total_users.
C15_Witness ==
    /\ output["s1"].started
    /\ output["s2"].started
    /\ input["s1"].user_text = Value(<<"a", "b">>)
    /\ input["s2"].user_text = NULL
    /\ input["s1"].button_trigger = Value(2)
    /\ output["s1"].values["processed_text"] = <<"B", "A">>
    /\ output["s1"].values["active_sessions"] # output["s2"].values["active_sessions"]
    /\ output["s1"].values["total_users"] = output["s2"].values["total_users"]
    /\ output["s1"].values["category_chart_data"].score[3] = [sum |-> 1761, n |-> 2]

(***************************************************************************)
(* C16  The error panel of ChartsSection and the data it hides.            *)
(***************************************************************************)
\* C16: whenever ChartsSection renders the error panel, every dataset it
\* would otherwise display is empty: the five chart datasets and the rows
\* of the workspace cost table and of the API-key usage table.
C16_ErrorPanelHidesNoData ==
    (rendered.charts.kind = "error_panel" /\ ~crashed) =>
        \A id \in ChartIds : Len(memo[id].rows) = 0

(***************************************************************************)
(* C17  What the Retry button does.                                        *)
(***************************************************************************)
\* C17: pressing Retry in the error panel toggles the use_demo_mode input
\* off and then on: the step leaves use_demo_mode on and writes no other
\* input.
C17_RetryTogglesDemoMode ==
    [][handleRetry =>
          /\ useDemoMode' = TRUE
          /\ UNCHANGED <<filterVars, startDate, endDate>>]_vars

(***************************************************************************)
(* C18  The "Today" preset of DateRangeSelector.                           *)
(***************************************************************************)
\* C18: the "Today" preset of DateRangeSelector selects one day: after it
\* date_start is a date at 00:00:00Z, date_end the same date at 23:59:59Z,
\* and the two Date objects behind the displayed range are the same day.
C18_TodayIsOneDay ==
    [][(component = "DateRangeSelector" /\ setPresetRange(1)) =>
          /\ startDate'.time = "T00:00:00Z"
          /\ endDate'.time = "T23:59:59Z"
          /\ startDate'.day = endDate'.day
          /\ startDateObj' = endDateObj']_vars

(***************************************************************************)
(* ToastSystem: the registration of the handler and the toasts.            *)
(***************************************************************************)
\* setTimeout calls of registerHandler while Shiny is absent.
MaxPolls == 3

\* Messages handed to the handler in one behaviour.
MaxToasts == 2

\* The custom messages the backend sends on the "warning" channel.
Messages ==
    [message : {"m1", "m2"},
     type : {"warning", "error", "info", "success", "debug", Undefined}]

\* registerHandler as it would be if it kept its timer after registering.
registerHandlerKeepingTimer(pending) ==
    IF shinyAvailable
    THEN /\ registrations' = registrations + 1
         /\ timers' = Append(pending, 100)
         /\ polls' = polls
    ELSE /\ timers' = Append(pending, 100)
         /\ polls' = polls + 1
         /\ registrations' = registrations

\* registerHandler, run with the timers that are pending beside it: it
\* registers handleWarningMessage, or calls setTimeout(registerHandler, 100).
registerHandler(pending) ==
    IF shinyAvailable
    THEN /\ registrations' = registrations + 1
         /\ timers' = pending
         /\ polls' = polls
    ELSE /\ timers' = Append(pending, 100)
         /\ polls' = polls + 1
         /\ registrations' = registrations

\* The mount effect of ToastSystem: the first call of registerHandler.
ToastMountEffect ==
    /\ ~crashed
    /\ ~toastMounted
    /\ toastMounted' = TRUE
    /\ registerHandler(timers)
    /\ UNCHANGED <<shinyAvailable, delivered, toasts, pageVars, serverVars>>

\* A timer set by registerHandler fires: registerHandler runs again.
TimerFires ==
    /\ timers # <<>>
    /\ shinyAvailable \/ polls < MaxPolls
    /\ registerHandler(Tail(timers))
    /\ UNCHANGED <<shinyAvailable, toastMounted, delivered, toasts, pageVars, serverVars>>

\* shiny.js has run: window.Shiny.addCustomMessageHandler exists from now on.
ShinyLoads ==
    /\ ~shinyAvailable
    /\ shinyAvailable' = TRUE
    /\ UNCHANGED <<toastMounted, timers, registrations, polls, delivered, toasts,
                   pageVars, serverVars>>

\* Shiny hands a message of the "warning" channel to the registered handler.
ReceiveWarning(msg) ==
    /\ registrations > 0
    /\ Len(delivered) < MaxToasts
    /\ delivered' = Append(delivered, msg)
    /\ toasts' = toasts \o handleWarningMessage(msg)
    /\ UNCHANGED <<shinyAvailable, toastMounted, timers, registrations, polls,
                   pageVars, serverVars>>

ToastNext ==
    \/ ToastMountEffect
    \/ TimerFires
    \/ ShinyLoads
    \/ \E msg \in Messages : ReceiveWarning(msg)

ToastSpec == Init /\ [][ToastNext]_vars

\* The browser runs a timer that is due.
ToastFairSpec == ToastSpec /\ WF_vars(TimerFires)

(***************************************************************************)
(* C19  The registration of the "warning" handler.                         *)
(***************************************************************************)
\* C19: once mounted, ToastSystem has either no registration and exactly one
\* timer of 100 ms pending, or exactly one registration and no timer; a
\* timer that fires while Shiny is absent sets the next timer of 100 ms;
\* and once Shiny is available the handler is eventually registered.
C19_HandlerRegisteredOnce ==
    /\ [](IF toastMounted
          THEN \/ registrations = 0 /\ timers = <<100>>
               \/ registrations = 1 /\ timers = <<>>
          ELSE registrations = 0 /\ timers = <<>>)
    /\ [][(TimerFires /\ ~shinyAvailable) => (timers' = <<100>> /\ polls' = polls + 1)]_vars
    /\ ((toastMounted /\ shinyAvailable) ~> (registrations = 1 /\ timers = <<>>))

\* Registered after the timer was set again at least twice while Shiny was
\* absent.
C19_Witness ==
    /\ toastMounted
    /\ shinyAvailable
    /\ polls >= 2
    /\ registrations = 1
    /\ timers = <<>>

(***************************************************************************)
(* C20  One toast for each message.                                        *)
(***************************************************************************)
\* C20: the i-th message handed to the handler made the i-th toast and no
\* other: it carries msg.message, and msg.type fixes its kind, duration and
\* action: warning 8000 ms with Dismiss, error 10000 ms with Dismiss, info
\* 5000 ms, success 4000 ms, any other or missing type a plain toast of
\* 5000 ms.
C20_OneToastPerMessage ==
    /\ Len(toasts) = Len(delivered)
    /\ \A i \in 1..Len(delivered) :
          LET msg == delivered[i]
              shown == toasts[i]
          IN /\ shown.message = msg.message
             /\ <<shown.kind, shown.duration, shown.action>> =
                   CASE msg.type = "warning" -> <<"warning", 8000, "Dismiss">>
                     [] msg.type = "error" -> <<"error", 10000, "Dismiss">>
                     [] msg.type = "info" -> <<"info", 5000, NoAction>>
                     [] msg.type = "success" -> <<"success", 4000, NoAction>>
                     [] OTHER -> <<"plain", 5000, NoAction>>

\* A message without a type and an error message, each with its toast.
C20_Witness ==
    /\ Len(delivered) = 2
    /\ delivered[1].type = Undefined
    /\ delivered[2].type = "error"
    /\ Len(toasts) = 2
    /\ toasts[1].kind = "plain"
    /\ toasts[2].duration = 10000

(***************************************************************************)
(* C21  Reshaping in ChartsSection and the values it is given.             *)
(***************************************************************************)
\* C21: for every value a chart or table output holds, the reshaping raises
\* no error and returns a row list: the empty list for a value that is no
\* object or lacks its key column, otherwise as many rows as the key column
\* has cells, where a missing or falsy cell is replaced by its default (0,
\* "Unknown", "standard", 1970-01-01T00:00:00Z) and any other cell is kept
\* (the date of token usage has no default and the model name loses its
\* prefix: neither is compared).
C21_ReshapingNeverFails ==
    \A id \in ChartIds :
        LET raw == chartsRaw[id]
            key == ColumnNames(id)[1]
            result == Reshape(id, raw)
            Default(f) ==
                CASE f \in {"model", "workspace", "api_key"} -> Str("Unknown")
                  [] f = "service_tier" -> Str("standard")
                  [] f = "creation_time" -> Str("1970-01-01T00:00:00Z")
                  [] OTHER -> Num(0)
        IN /\ ~result.threw
           /\ IF Malformed(raw, key)
              THEN result.rows = <<>>
              ELSE /\ Len(result.rows) = Len(Prop(raw, key))
                   /\ \A i \in 1..Len(result.rows) :
                         \A f \in DOMAIN result.rows[i] \ {"date"} :
                            LET cell == At(Prop(raw, f), i - 1)
                            IN IF Falsy(cell)
                               THEN result.rows[i][f] = Default(f)
                               ELSE f = "model" \/ result.rows[i][f] = cell

====
